---- MODULE Spec2Model ----
(***************************************************************************)
(* Model of the memento editor's storage layer (src/storage.py,            *)
(* src/constants.py, src/encryption.py): one FileManager over one memento  *)
(* directory.  The FileManager's fields and the directory's files are the  *)
(* state; every public operation is one action.                            *)
(*                                                                         *)
(* Abstractions.  A text is a record (id, size, distinct16): its identity, *)
(* its UTF-8 length in bytes and the number of distinct byte values among  *)
(* its first 16 bytes (all that is_encrypted_data looks at).  An AES key   *)
(* is the pair (passphrase, salt) it is derived from (PBKDF2 is            *)
(* deterministic and taken to be collision free).  A ciphertext records    *)
(* the key and the text it was made from; the random nonce is left out, it *)
(* does not influence whether and to what a ciphertext decrypts.  The      *)
(* cryptography and brotli libraries are available (HAS_ENCRYPTION and     *)
(* has_encryption_support are true).  Bytes of a ciphertext are taken not  *)
(* to be valid UTF-8.                                                      *)
(*                                                                         *)
(* The autosave scheduler (src/autosave.py) is modelled as one IdleSaver   *)
(* used by the UI thread (thread 0) and by the threads of the              *)
(* threading.Timer objects it creates (threads 1, 2, ...).  A thread takes *)
(* one step for every acquisition of the IdleSaver's lock, one step for    *)
(* the body of every `with self._lock` block (the block's exit releases    *)
(* the lock), and one step each for the begin and the end of a call of the *)
(* save callback.  Durations of typing sessions are left out (a recorded   *)
(* session is its character count; its duration is taken to be positive).  *)
(*                                                                         *)
(* The connection manager (src/mongodb_connection_manager.py) is modelled  *)
(* with two caller threads (1 and 2) and its heartbeat thread (3).  A      *)
(* MongoClient object is a number; the server is up or down, and a         *)
(* connection attempt succeeds exactly when it is up.  Time is the         *)
(* passage of more than 30 seconds (Tick), after which the last ping is    *)
(* no longer recent and a sleeping heartbeat may wake.                     *)
(*                                                                         *)
(* The listing (FileManager.list_mementos) is modelled over the memento    *)
(* root directory, a map from memento ids to the last_modified time of     *)
(* their control file, and the remote collection's content documents in    *)
(* the order a find() returns them.  Times are the values of a clock that  *)
(* advances with every write, so no two of them are equal.  The listing is *)
(* modelled from line 414 on: the migration before it only changes the     *)
(* directory and the collection that the listing then reads.               *)
(***************************************************************************)
EXTENDS Integers, Sequences, FiniteSets, TLC

VARIABLES current_index, max_buffers, is_encrypted, aes_key, files, control,
          ret, hist, ops

\* the IdleSaver: its fields, the lock's holder, every thread's position
\* and local session_data, the UI thread's current or last call, and the
\* numbers of callback invocations and of timer expiries so far
VARIABLES active, timer, lock, pc, char_count_since_save, char_threshold,
          current_threshold_index, typing_sessions, session_started,
          session_char_count, session_data, call, saves, expired

storeVars == <<current_index, max_buffers, is_encrypted, aes_key, files, control,
               ret, hist, ops>>

saverVars == <<active, timer, lock, pc, char_count_since_save, char_threshold,
               current_threshold_index, typing_sessions, session_started,
               session_char_count, session_data, call, saves, expired>>

\* the connection manager: its class attributes, the holder of
\* _connection_lock, the MongoClient objects created so far, the server,
\* every caller's position, loop variable and current or last call, the
\* heartbeat thread, whether its sleep can be over, whether the last
\* heartbeat ping failed, and the number of calls so far
VARIABLES instance, client, db, uri, last_ping_recent, is_shutting_down,
          connection_lock, clients, remote_up, mpc, attempt, mret,
          heartbeat, hb_slept, probe_failed, mcalls

mongoVars == <<instance, client, db, uri, last_ping_recent, is_shutting_down,
               connection_lock, clients, remote_up, mpc, attempt, mret,
               heartbeat, hb_slept, probe_failed, mcalls>>

\* the listing: the memento directories under MEMENTO_ROOT (0: no
\* directory, otherwise the control file's last_modified), the content
\* documents of the remote collection, the list last returned, whether it
\* was returned for the present directory and collection ("no"), and if so
\* without or with remote support ("local", "remote"), the clock, and the
\* last call of load_memento or create_new_memento
VARIABLES local_dirs, content_docs, mementos, listed, now, lret

listVars == <<local_dirs, content_docs, mementos, listed, now, lret>>

\* calculate_buffer_size: the argument and the result of the last call
\* (-1 before the first)
VARIABLES text_size_bytes, buffer_size

sizeVars == <<text_size_bytes, buffer_size>>

\* the control record by itself: the content of control.json, the
\* FileManager that last read it (or failed to), the FileManager whose
\* fields the file holds when it was written and not damaged since, and
\* the last operation with its outcome
VARIABLES control_file, manager2, saved, cret

ctlVars == <<control_file, manager2, saved, cret>>

\* the text that every write_snapshot writes from some point on (None
\* before that point), and the pairs (current_index, max_buffers) the
\* FileManager has been in since that point
VARIABLES steady, seen

capVars == <<steady, seen>>

vars == <<storeVars, saverVars, mongoVars, listVars, sizeVars, ctlVars, capVars>>

\* ---------------------------------------------------------------- bounds
\* number of operations called on the FileManager in one behaviour
MaxOps == 5
\* number of write_snapshot calls in one behaviour of the ring specification
MaxRingWrites == 12
\* number of calls the UI thread makes on the IdleSaver in one behaviour
MaxCalls == 4
\* number of timers the IdleSaver creates in one behaviour
MaxTimers == 2
\* number of calls made on the connection manager in one behaviour
MaxMongoCalls == 3
\* number of MongoClient objects created in one behaviour
MaxClients == 4
\* number of writes to the memento directories and the remote collection in
\* one behaviour
MaxListOps == 4
\* the text sizes calculate_buffer_size is applied to: the multiples of
\* SizeStep bytes up to MaxSizeK * SizeStep, and the sizes at which the
\* quotient changes
MaxSizeK == 400
SizeStep == 1000

\* ------------------------------------------------------ program constants
MIN_BUFFER_SIZE == 3
MAX_BUFFER_SIZE == 50
BASE_FILE_SIZE_KB == 1024
DEFAULT_MAX_BUFFERS == 10
MEMENTO_ID == 0
CHAR_COUNT_THRESHOLDS == <<2, 4, 8, 16, 32, 64>>
INITIAL_CHAR_THRESHOLD == 2
MAX_TYPING_SESSIONS == 20
MIN_SESSIONS_TO_ADJUST == 3
MAX_RECONNECT_ATTEMPTS == 3

\* ------------------------------------------------------------------ texts
None == [id |-> -1, size |-> 0, distinct16 |-> 0]
EmptyText == [id |-> 0, size |-> 0, distinct16 |-> 0]

\* two texts for each of the capacities 10, 5 and 3 (100 KB, 200 KB, 390 KB)
TextA1 == [id |-> 1, size |-> 104857, distinct16 |-> 12]
TextA2 == [id |-> 2, size |-> 104000, distinct16 |-> 3]
TextB1 == [id |-> 3, size |-> 209715, distinct16 |-> 11]
TextB2 == [id |-> 4, size |-> 209000, distinct16 |-> 9]
TextC1 == [id |-> 5, size |-> 400000, distinct16 |-> 10]
TextC2 == [id |-> 6, size |-> 262145, distinct16 |-> 8]

\* a text for the capacity 4 (1048576 / 250000 = 4.19...)
TextD1 == [id |-> 7, size |-> 250000, distinct16 |-> 10]

\* the texts the editor saves in the main specification
Texts == {EmptyText, TextA1, TextC1}
\* the texts of the specification of the capacity's adjustment
CapTexts == {EmptyText, TextA1, TextC1, TextD1}
\* the texts of the ring specification
RingTexts == {TextA1, TextA2, TextB1, TextB2, TextC1, TextC2}

Passphrases == {"p1", "p2"}
NoPass == "-"

\* ------------------------------------------------------------- constants.py
Max(a, b) == IF a >= b THEN a ELSE b
Min(a, b) == IF a <= b THEN a ELSE b

\* a calculate_buffer_size that rounds the quotient up
calculate_buffer_sizeRoundUp(size) ==
    LET q == IF size <= 1024
             THEN BASE_FILE_SIZE_KB
             ELSE (BASE_FILE_SIZE_KB * 1024 + size - 1) \div size
    IN Max(MIN_BUFFER_SIZE, Min(MAX_BUFFER_SIZE, q))
\* int(BASE_FILE_SIZE_KB / max(size_kb, 1)) with size_kb = bytes / 1024:
\* the quotient is BASE_FILE_SIZE_KB for up to 1024 bytes and
\* floor(BASE_FILE_SIZE_KB * 1024 / bytes) above.
calculate_buffer_size(size) ==
    LET q == IF size <= 1024
             THEN BASE_FILE_SIZE_KB
             ELSE (BASE_FILE_SIZE_KB * 1024) \div size
    IN Max(MIN_BUFFER_SIZE, Min(MAX_BUFFER_SIZE, q))

\* the sizes the function is applied to
Sizes ==
    {k * SizeStep : k \in 0..MaxSizeK}
        \cup {(BASE_FILE_SIZE_KB * 1024) \div q + d :
                 q \in (MIN_BUFFER_SIZE - 1)..(MAX_BUFFER_SIZE + 1), d \in {0, 1}}
        \cup {1, 1023, 1024, 1025}

\* before the first call
SizeInit ==
    /\ text_size_bytes = 0
    /\ buffer_size = -1

\* ------------------------------------------------------------ encryption.py
NoKey == [pass |-> NoPass, salt |-> -1]

derive_aes_key(passphrase, salt) == [pass |-> passphrase, salt |-> salt]

PlainFile(text) == [kind |-> "plain", key |-> NoKey, text |-> text]

\* nonce || AES-GCM(key, brotli(text))
encrypt_data(data, key) == [kind |-> "enc", key |-> key, text |-> data]

\* AESGCM.decrypt raises InvalidTag unless the bytes are a ciphertext made
\* under the same key; ok = FALSE stands for the exception.
decrypt_data(encrypted_data, key) ==
    IF encrypted_data.kind = "enc" /\ encrypted_data.key = key
    THEN [ok |-> TRUE, text |-> encrypted_data.text]
    ELSE [ok |-> FALSE, text |-> None]

\* len(data) >= 16 and at least 8 distinct values among the first 16 bytes;
\* a ciphertext starts with a random nonce and passes the test.
is_encrypted_data(file) ==
    IF file.kind = "enc" THEN TRUE
    ELSE file.text.size >= 16 /\ file.text.distinct16 >= 8

\* --------------------------------------------------------------- storage.py
\* The directory is a function from the paths of the slot files that exist
\* (<<i, "txt">> for i.txt, <<i, "enc">> for i.enc) to their contents.
Exists(s, path) == path \in DOMAIN s.files

WriteFile(s, path, content) ==
    [s EXCEPT !.files = [x \in DOMAIN s.files \cup {path} |->
                            IF x = path THEN content ELSE s.files[x]]]

NoControl == [exists |-> FALSE, current_index |-> 0, max_buffers |-> 0,
              is_encrypted |-> FALSE]

\* the FileManager and its directory as one value, so that operations
\* that call one another compose
Self == [current_index |-> current_index, max_buffers |-> max_buffers,
         is_encrypted |-> is_encrypted, aes_key |-> aes_key,
         files |-> files, control |-> control]

_get_snapshot_path(s, index) ==
    IF s.is_encrypted THEN <<index, "enc">> ELSE <<index, "txt">>

_prepare_aes_key(s, passphrase) ==
    [s EXCEPT !.aes_key = derive_aes_key(passphrase, MEMENTO_ID)]

_save_control_file(s) ==
    [s EXCEPT !.control = [exists |-> TRUE,
                           current_index |-> s.current_index,
                           max_buffers |-> s.max_buffers,
                           is_encrypted |-> s.is_encrypted]]

_load_snapshot_at_index(s, index) ==
    LET snapshot_path == _get_snapshot_path(s, index) IN
    IF ~Exists(s, snapshot_path) THEN None
    ELSE LET f == s.files[snapshot_path] IN
         IF s.is_encrypted /\ s.aes_key # NoKey
         THEN LET d == decrypt_data(f, s.aes_key) IN
              IF d.ok THEN d.text ELSE None
         ELSE IF f.kind = "plain" THEN f.text ELSE None

\* a load without the `or ""`
load_current_snapshotNoDefault(s) == _load_snapshot_at_index(s, s.current_index)

\* `... or ""`
load_current_snapshot(s) ==
    LET c == _load_snapshot_at_index(s, s.current_index) IN
    IF c = None THEN EmptyText ELSE c

load_snapshot(s, version_offset) ==
    _load_snapshot_at_index(s, (s.current_index + version_offset) % s.max_buffers)

_write_snapshot_at_index(s, index, text) ==
    LET snapshot_path == _get_snapshot_path(s, index) IN
    IF s.is_encrypted /\ s.aes_key # NoKey
    THEN WriteFile(s, snapshot_path, encrypt_data(text, s.aes_key))
    ELSE WriteFile(s, snapshot_path, PlainFile(text))

\* unlink every existing file i.ext with lo <= i < hi
RemoveFiles(s, ext, lo, hi) ==
    LET gone == {x \in DOMAIN s.files : x[2] = ext /\ lo <= x[1] /\ x[1] < hi} IN
    [s EXCEPT !.files = [x \in DOMAIN s.files \ gone |-> s.files[x]]]

_adjust_buffer_size(s, text_size) ==
    LET new_buffer_size == calculate_buffer_size(text_size) IN
    IF new_buffer_size = s.max_buffers THEN s
    ELSE IF s.current_index < 2 \/ s.current_index >= s.max_buffers - 2 THEN s
    ELSE IF new_buffer_size > s.max_buffers
         THEN [s EXCEPT !.max_buffers = new_buffer_size]
         ELSE [RemoveFiles(s, _get_snapshot_path(s, 0)[2], new_buffer_size, s.max_buffers)
                  EXCEPT !.max_buffers = new_buffer_size]

NextIndexNoWrap(index, capacity) == index + 1

NextIndexSkipZero(index, capacity) == IF index + 1 >= capacity THEN 1 ELSE index + 1

NextIndex(index, capacity) == (index + 1) % capacity

\* a write that stores the text before it advances the index
write_snapshotBeforeAdvance(s, text, fail) ==
    LET s1 == _adjust_buffer_size(s, text.size)
        s2 == _write_snapshot_at_index(s1, s1.current_index, text)
        s3 == [s2 EXCEPT !.current_index = (s1.current_index + 1) % s1.max_buffers]
    IN CASE fail = "slot" -> [s1 EXCEPT !.current_index = s3.current_index]
         [] fail = "control" -> s3
         [] OTHER -> _save_control_file(s3)

\* fail = "none": the call returns; "slot": opening or writing the slot file
\* raises; "control": opening or writing control.json raises.  The state
\* is what the call leaves behind in each case.
write_snapshot(s, text, fail) ==
    LET s1 == _adjust_buffer_size(s, text.size)
        s2 == [s1 EXCEPT !.current_index = NextIndex(s1.current_index, s1.max_buffers)]
        s3 == _write_snapshot_at_index(s2, s2.current_index, text)
    IN CASE fail = "slot" -> s2
         [] fail = "control" -> s3
         [] OTHER -> _save_control_file(s3)

\* load_current_snapshot returns None-or-text and never raises, so the
\* except branch (which would return False) is never taken.
verify_passphrase(s, passphrase) ==
    IF ~s.is_encrypted THEN [state |-> s, result |-> TRUE]
    ELSE LET s1 == _prepare_aes_key(s, passphrase)
             content == load_current_snapshot(s1)
         IN [state |-> s1, result |-> TRUE]

\* enable_encryption reading the content after the plaintext slots are gone
enable_encryptionReadAfterUnlink(s, passphrase) ==
    IF s.is_encrypted THEN [state |-> s, raised |-> "ValueError: already encrypted"]
    ELSE LET s1 == _prepare_aes_key(s, passphrase)
             s2 == RemoveFiles(s1, "txt", 0, s1.max_buffers)
             current_content == load_current_snapshot(s2)
             s3 == [s2 EXCEPT !.is_encrypted = TRUE]
         IN [state |-> write_snapshot(s3, current_content, "none"), raised |-> "no"]

\* enable_encryption deriving the key before it checks the flag
enable_encryptionKeyFirst(s, passphrase) ==
    LET s1 == _prepare_aes_key(s, passphrase) IN
    IF s.is_encrypted THEN [state |-> s1, raised |-> "ValueError: already encrypted"]
    ELSE LET current_content == load_current_snapshot(s1)
             s2 == RemoveFiles(s1, "txt", 0, s1.max_buffers)
             s3 == [s2 EXCEPT !.is_encrypted = TRUE]
         IN [state |-> write_snapshot(s3, current_content, "none"), raised |-> "no"]

enable_encryption(s, passphrase) ==
    IF s.is_encrypted THEN [state |-> s, raised |-> "ValueError: already encrypted"]
    ELSE LET s1 == _prepare_aes_key(s, passphrase)
             current_content == load_current_snapshot(s1)
             s2 == RemoveFiles(s1, "txt", 0, s1.max_buffers)
             s3 == [s2 EXCEPT !.is_encrypted = TRUE]
         IN [state |-> write_snapshot(s3, current_content, "none"), raised |-> "no"]

disable_encryption(s, passphrase) ==
    IF ~s.is_encrypted THEN [state |-> s, raised |-> "ValueError: not encrypted"]
    ELSE LET v == verify_passphrase(s, passphrase) IN
         IF ~v.result THEN [state |-> v.state, raised |-> "ValueError: Invalid passphrase"]
         ELSE LET s1 == v.state
                  current_content == load_current_snapshot(s1)
                  s2 == RemoveFiles(s1, "enc", 0, s1.max_buffers)
                  s3 == [s2 EXCEPT !.is_encrypted = FALSE, !.aes_key = NoKey]
              IN [state |-> write_snapshot(s3, current_content, "none"), raised |-> "no"]

\* the indices change_passphrase re-encrypts: existing slots that load
\* (decrypt) under the key verify_passphrase left loaded
ReadableSlotsCurrentOnly(s) ==
    {i \in {s.current_index} : _load_snapshot_at_index(s, i) # None}

ReadableSlots(s) ==
    {i \in 0 .. (s.max_buffers - 1) : _load_snapshot_at_index(s, i) # None}

RECURSIVE RewriteSlots(_, _, _)
RewriteSlots(s, snapshots, todo) ==
    IF todo = {} THEN s
    ELSE LET i == CHOOSE j \in todo : \A k \in todo : j <= k IN
         RewriteSlots(_write_snapshot_at_index(s, i, snapshots[i]), snapshots, todo \ {i})

change_passphrase(s, old_passphrase, new_passphrase) ==
    IF ~s.is_encrypted
    THEN [state |-> s, raised |-> "ValueError: not encrypted", rewritten |-> 0]
    ELSE LET v == verify_passphrase(s, old_passphrase) IN
         IF ~v.result
         THEN [state |-> v.state, raised |-> "ValueError: Invalid current passphrase",
               rewritten |-> 0]
         ELSE LET s1 == v.state
                  idx == ReadableSlots(s1)
                  snapshots == [i \in idx |-> _load_snapshot_at_index(s1, i)]
                  s2 == _prepare_aes_key(s1, new_passphrase)
                  s3 == RewriteSlots(s2, snapshots, idx)
              IN [state |-> _save_control_file(s3), raised |-> "no",
                  rewritten |-> Cardinality(idx)]

_detect_encryption_status(s) ==
    IF \E i \in 0 .. (s.max_buffers - 1) : Exists(s, <<i, "enc">>)
    THEN [s EXCEPT !.is_encrypted = TRUE]
    ELSE IF \E i \in 0 .. (s.max_buffers - 1) :
               /\ Exists(s, <<i, "txt">>)
               /\ is_encrypted_data(s.files[<<i, "txt">>])
         THEN [s EXCEPT !.is_encrypted = TRUE]
         ELSE s

_load_control_file(s) ==
    IF s.control.exists
    THEN [s EXCEPT !.current_index = s.control.current_index,
                   !.max_buffers = s.control.max_buffers,
                   !.is_encrypted = s.control.is_encrypted]
    ELSE _detect_encryption_status(s)

\* FileManager(memento_id) over the directory (files, control) of s
FileManagerInit(s) ==
    _load_control_file([current_index |-> 0, max_buffers |-> DEFAULT_MAX_BUFFERS,
                        is_encrypted |-> FALSE, aes_key |-> NoKey,
                        files |-> s.files, control |-> s.control])

\* ------------------------------------ storage.py: control.json in detail
\* A FileManager here is its five persistent fields.  A JSON value is a
\* number or a boolean; control.json is missing, holds a JSON object
\* (a function from keys to JSON values), holds text that is not JSON
\* ("syntax", what a write cut short leaves), holds JSON that is not an
\* object ("array"), or holds bytes that are not text ("bytes").
Manager(ci, mb, ct, lm, enc) ==
    [current_index |-> ci, max_buffers |-> mb, created_timestamp |-> ct,
     last_modified |-> lm, is_encrypted |-> enc]

NoManager == Manager(-1, -1, -1, -1, FALSE)

\* the values time.time() takes and the timestamps a manager holds
Times == {7, 8}

Managers ==
    {Manager(ci, mb, ct, lm, enc) :
        ci \in {0, 3}, mb \in {5, 10}, ct \in {0, 7}, lm \in {0, 8},
        enc \in BOOLEAN}

JNumber(n) == [t |-> "number", n |-> n, b |-> FALSE]
JBool(b) == [t |-> "bool", n |-> 0, b |-> b]

NoData == [k \in {} |-> JNumber(0)]

File(kind, data) == [kind |-> kind, data |-> data]

\* json.dump(data, f) of _save_control_file
json_dump(m) ==
    File("object",
         [k \in {"current_index", "max_buffers", "created_timestamp",
                 "last_modified", "is_encrypted"} |->
            CASE k = "current_index" -> JNumber(m.current_index)
              [] k = "max_buffers" -> JNumber(m.max_buffers)
              [] k = "created_timestamp" -> JNumber(m.created_timestamp)
              [] k = "last_modified" -> JNumber(m.last_modified)
              [] k = "is_encrypted" -> JBool(m.is_encrypted)])

\* data.get(key, default) on what json.load returned
Get(data, key, default) ==
    IF key \in DOMAIN data
    THEN (IF data[key].t = "number" THEN data[key].n ELSE data[key].b)
    ELSE default

\* a _load_control_file that leaves max_buffers as the manager holds it
load_control_jsonKeepsBuffers(m, file, t) ==
    CASE file.kind = "missing" -> [manager |-> m, raised |-> "no"]
      [] file.kind = "syntax" -> [manager |-> m, raised |-> "no"]
      [] file.kind = "array" -> [manager |-> NoManager, raised |-> "AttributeError"]
      [] file.kind = "bytes" -> [manager |-> NoManager, raised |-> "UnicodeDecodeError"]
      [] OTHER ->
           [manager |-> Manager(Get(file.data, "current_index", 0),
                                m.max_buffers,
                                Get(file.data, "created_timestamp", t),
                                Get(file.data, "last_modified", t),
                                Get(file.data, "is_encrypted", FALSE)),
            raised |-> "no"]
\* _load_control_file of a manager holding m, at time t: nothing without
\* the file; json.load raises JSONDecodeError on text that is not JSON,
\* which is caught, and UnicodeDecodeError on bytes that are not text,
\* which is not; data.get raises AttributeError when the JSON value is no
\* object, which is not caught either
load_control_json(m, file, t) ==
    CASE file.kind = "missing" -> [manager |-> m, raised |-> "no"]
      [] file.kind = "syntax" -> [manager |-> m, raised |-> "no"]
      [] file.kind = "array" -> [manager |-> NoManager, raised |-> "AttributeError"]
      [] file.kind = "bytes" -> [manager |-> NoManager, raised |-> "UnicodeDecodeError"]
      [] OTHER ->
           [manager |-> Manager(Get(file.data, "current_index", 0),
                                Get(file.data, "max_buffers", 10),
                                Get(file.data, "created_timestamp", t),
                                Get(file.data, "last_modified", t),
                                Get(file.data, "is_encrypted", FALSE)),
            raised |-> "no"]

\* the fields FileManager.__init__ sets before it loads the control file
FreshManager(t) == Manager(0, DEFAULT_MAX_BUFFERS, t, t, FALSE)

CRet(op, raised) == [op |-> op, raised |-> raised]

\* a memento directory without control.json
CtlInit ==
    /\ control_file = File("missing", NoData)
    /\ manager2 = NoManager
    /\ saved = NoManager
    /\ cret = CRet("none", "no")

\* -------------------------------------------------------------- autosave.py
UI == 0
Timers == 1..MaxTimers
Threads == {UI} \cup Timers
NoTimer == 0
Free == -1

RECURSIVE Sum(_)
Sum(q) == IF Len(q) = 0 THEN 0 ELSE Head(q) + Sum(Tail(q))

\* self._typing_sessions.append(...); keep only the last 20 sessions
AppendSession(sessions, chars) ==
    LET q == Append(sessions, chars) IN
    IF Len(q) > MAX_TYPING_SESSIONS
    THEN SubSeq(q, Len(q) - MAX_TYPING_SESSIONS + 1, Len(q))
    ELSE q

\* the index _adjust_threshold settles on for an average of total / n
\* characters per session: the loop runs up the thresholds and breaks at
\* the first one above the average (avg >= th iff total >= th * n)
RECURSIVE ThresholdIndexFrom(_, _, _, _)
ThresholdIndexFrom(i, best, total, n) ==
    IF i > Len(CHAR_COUNT_THRESHOLDS) THEN best
    ELSE IF total >= CHAR_COUNT_THRESHOLDS[i] * n
         THEN ThresholdIndexFrom(i + 1, i - 1, total, n)
         ELSE best

\* _adjust_threshold: the threshold index (0-based) after it ran over the
\* sessions; unchanged with fewer than three sessions
_adjust_threshold(sessions, index) ==
    IF Len(sessions) < MIN_SESSIONS_TO_ADJUST THEN index
    ELSE ThresholdIndexFrom(1, 0, Sum(sessions), Len(sessions))

\* a cancel() that leaves the timer running
CancelKeepTimer(p, t) == p
\* threading.Timer.cancel(): a timer that has not fired yet never will; one
\* that has fired, was cancelled or has ended is not affected
cancel(p, t) ==
    IF t # NoTimer /\ p[t] = "pending" THEN [p EXCEPT ![t] = "cancelled"] ELSE p

\* Thread.is_alive(): started and run() has not returned
is_alive(p, t) == p[t] \notin {"unborn", "done"}

\* the timer object the next threading.Timer(...) call creates
NewTimer(p) == Cardinality({t \in Timers : p[t] # "unborn"}) + 1

\* where a thread goes when its outermost function returns
Return(t) == IF t = UI THEN "idle" ELSE "done"

\* the reason _trigger_save is called with: update() runs on the UI thread,
\* _on_idle_timeout on a timer thread
Reason(t) == IF t = UI THEN "character count" ELSE "idle timeout"

\* an update() that calls _trigger_save inside its with block
UpdateExitLockHeld(t) == t
\* the lock's holder when update() has left its with block and goes on to
\* _trigger_save
UpdateExitLock(t) == Free

\* the UI thread's current (or last) call: its name and argument,
\* its number among the calls, whether the IdleSaver was active in its locked
\* block, the character count and the threshold update() compared, the
\* number of callback invocations it made, whether the callback returned
\* normally, whether it started a timer
Call(op, arg, n) ==
    [op |-> op, arg |-> arg, n |-> n, was_active |-> FALSE, count |-> 0,
     threshold |-> 0, invoked |-> 0, saved |-> FALSE, started |-> FALSE]

\* an update() that saves only above the threshold
should_save_nowAbove(char_added, count, threshold) ==
    char_added /\ count > threshold
\* should_save_now of update(): a character was added and the count has
\* reached the threshold
should_save_now(char_added, count, threshold) ==
    char_added /\ count >= threshold

\* IdleSaver(save_callback)
IdleSaverInit ==
    /\ active = FALSE
    /\ timer = NoTimer
    /\ lock = Free
    /\ pc = [t \in Threads |-> IF t = UI THEN "idle" ELSE "unborn"]
    /\ char_count_since_save = 0
    /\ char_threshold = INITIAL_CHAR_THRESHOLD
    /\ current_threshold_index = 0
    /\ typing_sessions = <<>>
    /\ session_started = FALSE
    /\ session_char_count = 0
    /\ session_data = [t \in Threads |-> 0]
    /\ call = Call("IdleSaver", FALSE, 0)
    /\ saves = 0
    /\ expired = 0

\* ------------------------------------------- mongodb_connection_manager.py
Callers == {1, 2}
HB == 3
NoClient == 0
Unlocked == 0
ClientIds == 1..MaxClients

\* the MongoClient object the next pymongo.MongoClient(...) call creates
NextClient(c) == Cardinality({i \in ClientIds : c[i] # "unborn"}) + 1

\* an _establish_connection whose exception leaves the method
_establish_connectionPropagates(up, new) ==
    IF up
    THEN [client |-> new, db |-> new, made |-> "open", result |-> TRUE, raised |-> FALSE]
    ELSE [client |-> new, db |-> NoClient, made |-> "unconnected",
          result |-> FALSE, raised |-> TRUE]
\* _establish_connection with the server up or down: the new values of
\* _client and _db, the state of the MongoClient object it created (a
\* client that failed its test is dropped without close()), the result
_establish_connection(up, new) ==
    IF up
    THEN [client |-> new, db |-> new, made |-> "open", result |-> TRUE, raised |-> FALSE]
    ELSE [client |-> NoClient, db |-> NoClient, made |-> "unconnected",
          result |-> FALSE, raised |-> FALSE]

\* a close() that leaves the client open
closeLeavesOpen(c, i) == c
\* client.close() on the client i, if any, among the clients c
close(c, i) == IF i # NoClient THEN [c EXCEPT ![i] = "closed"] ELSE c

\* a caller's current (or last) call: its name, whether its URI argument
\* is non-empty, its boolean result, the client or database handle it
\* returned (NoClient for None), whether it raised, the number of connection
\* attempts it made, whether it was called while another thread slept in
\* the reconnect loop, and whether it was called after a heartbeat ping
\* that failed
MCall(op, arg, during_sleep, after_failed_probe) ==
    [op |-> op, arg |-> arg, ok |-> FALSE, handle |-> NoClient, raised |-> FALSE,
     tries |-> 0, during_sleep |-> during_sleep,
     after_failed_probe |-> after_failed_probe]

\* the class attributes when the module is imported; the server is up
\* then (RemoteChange takes it down and up at any moment)
MongoInit ==
    /\ instance = FALSE
    /\ client = NoClient
    /\ db = NoClient
    /\ uri = FALSE
    /\ last_ping_recent = FALSE
    /\ is_shutting_down = FALSE
    /\ connection_lock = Unlocked
    /\ clients = [i \in ClientIds |-> "unborn"]
    /\ remote_up = TRUE
    /\ mpc = [t \in Callers |-> "idle"]
    /\ attempt = [t \in Callers |-> 0]
    /\ mret = [t \in Callers |-> MCall("import", FALSE, FALSE, FALSE)]
    /\ heartbeat = "none"
    /\ hb_slept = FALSE
    /\ probe_failed = FALSE
    /\ mcalls = 0

\* ------------------------------------------------- listing (storage.py)
MementoIds == {0, 1, 2}

NoDir == 0

MementoInfo(memento_id, last_modified) ==
    [memento_id |-> memento_id, last_modified |-> last_modified]

\* a content document as the listing's find() projects it
ContentDoc(memento_id, timestamp) ==
    [memento_id |-> memento_id, timestamp |-> timestamp]

\* the directories under MEMENTO_ROOT whose name is a number
local_ids(dirs) == {i \in MementoIds : dirs[i] # NoDir}

\* the entries of the first loop, one for every directory (iterdir's order
\* is taken to be ascending; the final sort makes it irrelevant when the
\* times differ)
RECURSIVE LocalInfos(_, _)
LocalInfos(dirs, ids) ==
    IF ids = {} THEN <<>>
    ELSE LET i == CHOOSE x \in ids : \A y \in ids : x <= y
         IN  <<MementoInfo(i, dirs[i])>> \o LocalInfos(dirs, ids \ {i})

\* the entries of the second loop: one for every document of the cursor
\* whose memento_id is not a local directory
RemoteInfos(dirs, docs) ==
    LET only == SelectSeq(docs, LAMBDA d : d.memento_id \notin local_ids(dirs))
    IN  [i \in 1..Len(only) |-> MementoInfo(only[i].memento_id, only[i].timestamp)]

\* list.sort(key = last_modified, reverse = True): a stable sort, entries
\* with equal keys keep their order
SortInsert(s, m) ==
    LET k == Cardinality({i \in 1..Len(s) : s[i].last_modified >= m.last_modified})
    IN  SubSeq(s, 1, k) \o <<m>> \o SubSeq(s, k + 1, Len(s))

RECURSIVE sort(_)
sort(s) ==
    IF s = <<>> THEN <<>>
    ELSE SortInsert(sort(SubSeq(s, 1, Len(s) - 1)), s[Len(s)])

\* what list_mementos returns over the directories dirs and the documents
\* docs; has_mongodb_support is true exactly when the server is up
Listing(dirs, docs, up) ==
    sort(LocalInfos(dirs, local_ids(dirs))
           \o (IF up THEN RemoteInfos(dirs, docs) ELSE <<>>))

\* constants.py: 0 without a directory, otherwise the largest id + 1
get_next_memento_id(dirs) ==
    LET existing_ids == local_ids(dirs) IN
    IF existing_ids = {} THEN 0
    ELSE (CHOOSE x \in existing_ids : \A y \in existing_ids : y <= x) + 1

\* load_memento returns a FileManager exactly when the directory exists
load_memento(dirs, memento_id) == dirs[memento_id] # NoDir

\* the last call on the memento root: its name, the id it was given or
\* returned, and whether it returned a FileManager
LRet(op, memento_id, found) == [op |-> op, id |-> memento_id, found |-> found]

\* an empty memento root and an empty collection
ListInit ==
    /\ lret = LRet("none", 0, FALSE)
    /\ local_dirs = [i \in MementoIds |-> NoDir]
    /\ content_docs = <<>>
    /\ mementos = <<>>
    /\ listed = "no"
    /\ now = 1

\* no text has been settled on
CapInit == steady = None /\ seen = {}

\* ------------------------------------------------------------------ actions
NoFiles == [x \in {} |-> PlainFile(None)]

\* the last call: its name, arguments, returned text, outcome, and (for
\* change_passphrase) the number of slots it re-encrypted
Ret(op, p, q, t, result, n) ==
    [op |-> op, p |-> p, q |-> q, t |-> t, result |-> result, n |-> n]

Install(s) ==
    /\ current_index' = s.current_index
    /\ max_buffers' = s.max_buffers
    /\ is_encrypted' = s.is_encrypted
    /\ aes_key' = s.aes_key
    /\ files' = s.files
    /\ control' = s.control

\* a new memento directory and the FileManager constructed over it
Init ==
    /\ current_index = 0
    /\ max_buffers = DEFAULT_MAX_BUFFERS
    /\ is_encrypted = FALSE
    /\ aes_key = NoKey
    /\ files = NoFiles
    /\ control = NoControl
    /\ ret = Ret("init", NoPass, NoPass, None, "ok", 0)
    /\ hist = <<>>
    /\ ops = 0
    /\ IdleSaverInit
    /\ MongoInit
    /\ ListInit
    /\ SizeInit
    /\ CtlInit
    /\ CapInit

\* the texts of the trailing run of write_snapshot calls that returned,
\* the last two of them
Push(h, t) == IF Len(h) = 0 THEN <<t>> ELSE <<h[Len(h)], t>>

WriteStep(t, fail) ==
    /\ Install(write_snapshot(Self, t, fail))
    /\ ret' = Ret("write_snapshot", NoPass, NoPass, t,
                  CASE fail = "none" -> "ok"
                    [] fail = "slot" -> "raise: OSError (slot file)"
                    [] OTHER -> "raise: OSError (control.json)", 0)
    /\ hist' = IF fail = "none" THEN Push(hist, t) ELSE <<>>
    /\ ops' = ops + 1
    /\ UNCHANGED <<capVars, ctlVars, sizeVars, listVars, saverVars, mongoVars>>

WriteSnapshot(t, fail) ==
    /\ ops < MaxOps
    /\ WriteStep(t, fail)

VerifyPassphrase(p) ==
    /\ ops < MaxOps
    /\ LET v == verify_passphrase(Self, p) IN
       /\ Install(v.state)
       /\ ret' = Ret("verify_passphrase", p, NoPass, None,
                     IF v.result THEN "True" ELSE "False", 0)
    /\ hist' = <<>>
    /\ ops' = ops + 1
    /\ UNCHANGED <<capVars, ctlVars, sizeVars, listVars, saverVars, mongoVars>>

EnableEncryption(p) ==
    /\ ops < MaxOps
    /\ LET r == enable_encryption(Self, p) IN
       /\ Install(r.state)
       /\ ret' = Ret("enable_encryption", p, NoPass, None, r.raised, 0)
    /\ hist' = <<>>
    /\ ops' = ops + 1
    /\ UNCHANGED <<capVars, ctlVars, sizeVars, listVars, saverVars, mongoVars>>

DisableEncryption(p) ==
    /\ ops < MaxOps
    /\ LET r == disable_encryption(Self, p) IN
       /\ Install(r.state)
       /\ ret' = Ret("disable_encryption", p, NoPass, None, r.raised, 0)
    /\ hist' = <<>>
    /\ ops' = ops + 1
    /\ UNCHANGED <<capVars, ctlVars, sizeVars, listVars, saverVars, mongoVars>>

ChangePassphrase(p, q) ==
    /\ ops < MaxOps
    /\ LET r == change_passphrase(Self, p, q) IN
       /\ Install(r.state)
       /\ ret' = Ret("change_passphrase", p, q, None, r.raised, r.rewritten)
    /\ hist' = <<>>
    /\ ops' = ops + 1
    /\ UNCHANGED <<capVars, ctlVars, sizeVars, listVars, saverVars, mongoVars>>

LoadSnapshot(off) ==
    /\ ops < MaxOps
    /\ ret' = Ret(IF off = 0 THEN "load_current_snapshot" ELSE "load_snapshot",
                  NoPass, NoPass,
                  IF off = 0 THEN load_current_snapshot(Self) ELSE load_snapshot(Self, off),
                  "ok", 0)
    /\ hist' = <<>>
    /\ ops' = ops + 1
    /\ UNCHANGED <<current_index, max_buffers, is_encrypted, aes_key, files, control>>
    /\ UNCHANGED <<capVars, ctlVars, sizeVars, listVars, saverVars, mongoVars>>

\* the editor is closed and the memento opened again: FileManager(memento_id)
Reopen ==
    /\ ops < MaxOps
    /\ Install(FileManagerInit(Self))
    /\ ret' = Ret("FileManager", NoPass, NoPass, None, "ok", 0)
    /\ hist' = <<>>
    /\ ops' = ops + 1
    /\ UNCHANGED <<capVars, ctlVars, sizeVars, listVars, saverVars, mongoVars>>

Next ==
    \/ \E t \in Texts, fail \in {"none", "slot", "control"} : WriteSnapshot(t, fail)
    \/ \E p \in Passphrases : VerifyPassphrase(p)
    \/ \E p \in Passphrases : EnableEncryption(p)
    \/ \E p \in Passphrases : DisableEncryption(p)
    \/ \E p, q \in Passphrases : ChangePassphrase(p, q)
    \/ \E off \in {0, -1} : LoadSnapshot(off)
    \/ Reopen

Spec == Init /\ [][Next]_vars

\* ------------------------------------------------- the ring at fixed capacity
\* test_ring_buffer_logic: a FileManager over an empty directory with
\* current_index 0 and max_buffers set by hand, then only writes that do
\* not resize (there _adjust_buffer_size is stubbed out; here the text
\* sizes are those whose calculate_buffer_size is the capacity)
RingCapacities == {3, 5, 10}

RingInit ==
    /\ current_index = 0
    /\ max_buffers \in RingCapacities
    /\ is_encrypted = FALSE
    /\ aes_key = NoKey
    /\ files = NoFiles
    /\ control = NoControl
    /\ ret = Ret("init", NoPass, NoPass, None, "ok", 0)
    /\ hist = <<>>
    /\ ops = 0
    /\ IdleSaverInit
    /\ MongoInit
    /\ ListInit
    /\ SizeInit
    /\ CtlInit
    /\ CapInit

RingWrite(t) ==
    /\ ops < MaxRingWrites
    /\ calculate_buffer_size(t.size) = max_buffers
    /\ WriteStep(t, "none")

RingNext == \E t \in RingTexts : RingWrite(t)

RingSpec == RingInit /\ [][RingNext]_vars

\* ------------------------------------- the capacity under steady writes
\* Writes of any texts, then writes of one text for ever.
CapWrite(t) ==
    /\ steady = None
    /\ WriteSnapshot(t, "none")

\* from here on every write writes t
Settle(t) ==
    /\ steady = None
    /\ steady' = t
    /\ seen' = {<<current_index, max_buffers>>}
    /\ UNCHANGED <<storeVars, saverVars, mongoVars, listVars, sizeVars, ctlVars>>

\* write_snapshot(steady); the calls are no longer counted
SteadyWrite ==
    /\ steady # None
    /\ Install(write_snapshot(Self, steady, "none"))
    /\ ret' = Ret("write_snapshot", NoPass, NoPass, steady, "ok", 0)
    /\ hist' = Push(hist, steady)
    /\ seen' = seen \cup {<<current_index', max_buffers'>>}
    /\ UNCHANGED <<ops, steady, saverVars, mongoVars, listVars, sizeVars, ctlVars>>

CapNext ==
    \/ \E t \in CapTexts : CapWrite(t)
    \/ \E t \in CapTexts : Settle(t)
    \/ SteadyWrite

CapSpec == Init /\ [][CapNext]_vars

\* number of slot files in the memento directory
FileCount == Cardinality(DOMAIN files)

\* ------------------------------------------------ the autosave scheduler
\* the positions at which a thread enters a `with self._lock` block, and
\* the position inside the block
LockPoints == {"start", "stop", "update", "force_save", "fs_reset",
               "_on_idle_timeout", "_process_session_data",
               "_trigger_save", "ts_reset", "ts_finally"}

Locked(p) ==
    CASE p = "start" -> "start_locked"
      [] p = "stop" -> "stop_locked"
      [] p = "update" -> "update_locked"
      [] p = "force_save" -> "force_save_locked"
      [] p = "fs_reset" -> "fs_reset_locked"
      [] p = "_on_idle_timeout" -> "_on_idle_timeout_locked"
      [] p = "_process_session_data" -> "_process_session_data_locked"
      [] p = "_trigger_save" -> "_trigger_save_locked"
      [] p = "ts_reset" -> "ts_reset_locked"
      [] p = "ts_finally" -> "ts_finally_locked"

Goto(t, p) == pc' = [pc EXCEPT ![t] = p]

\* the editor calls start(), stop(), update(char_added) or force_save() on
\* the UI thread
Begin(op, arg) ==
    /\ pc[UI] = "idle"
    /\ call.n < MaxCalls
    /\ op = "update" => NewTimer(pc) <= MaxTimers
    /\ Goto(UI, op)
    /\ call' = Call(op, arg, call.n + 1)
    /\ UNCHANGED <<capVars, ctlVars, sizeVars, listVars, storeVars, mongoVars, active, timer, lock, char_count_since_save,
                   char_threshold, current_threshold_index, typing_sessions,
                   session_started, session_char_count, session_data, saves,
                   expired>>

\* self._lock.acquire() at the head of a with block
Acquire(t) ==
    /\ pc[t] \in LockPoints
    /\ lock = Free
    /\ lock' = t
    /\ Goto(t, Locked(pc[t]))
    /\ UNCHANGED <<capVars, ctlVars, sizeVars, listVars, storeVars, mongoVars, active, timer, char_count_since_save,
                   char_threshold, current_threshold_index, typing_sessions,
                   session_started, session_char_count, session_data, call,
                   saves, expired>>

start ==
    /\ pc[UI] = "start_locked"
    /\ active' = TRUE
    /\ lock' = Free
    /\ Goto(UI, "idle")
    /\ UNCHANGED <<capVars, ctlVars, sizeVars, listVars, storeVars, mongoVars, timer, char_count_since_save, char_threshold,
                   current_threshold_index, typing_sessions, session_started,
                   session_char_count, session_data, call, saves, expired>>

stop ==
    /\ pc[UI] = "stop_locked"
    /\ active' = FALSE
    /\ timer' = NoTimer
    /\ lock' = Free
    /\ pc' = [cancel(pc, timer) EXCEPT ![UI] = "idle"]
    /\ UNCHANGED <<capVars, ctlVars, sizeVars, listVars, storeVars, mongoVars, char_count_since_save, char_threshold,
                   current_threshold_index, typing_sessions, session_started,
                   session_char_count, session_data, call, saves, expired>>

\* the with block of update(); the position it leaves to stands for
\* should_save_now
update ==
    /\ pc[UI] = "update_locked"
    /\ IF ~active
       THEN /\ lock' = Free
            /\ Goto(UI, "idle")
            /\ UNCHANGED <<timer, char_count_since_save, session_started,
                           session_char_count, call>>
       ELSE LET char_added == call.arg
                count == char_count_since_save + (IF char_added THEN 1 ELSE 0)
                save_now == should_save_now(char_added, count, char_threshold)
                cancelled == cancel(pc, timer)
                new == NewTimer(pc)
            IN /\ session_started' = (session_started \/ char_added)
               /\ session_char_count' =
                     IF ~char_added THEN session_char_count
                     ELSE IF session_started THEN session_char_count + 1 ELSE 1
               /\ char_count_since_save' = count
               /\ IF save_now
                  THEN /\ timer' = timer
                       /\ pc' = [cancelled EXCEPT ![UI] = "_trigger_save"]
                       /\ lock' = UpdateExitLock(UI)
                  ELSE /\ timer' = new
                       /\ pc' = [cancelled EXCEPT ![UI] = "idle", ![new] = "pending"]
                       /\ lock' = Free
               /\ call' = [call EXCEPT !.was_active = TRUE,
                                       !.count = count,
                                       !.threshold = char_threshold,
                                       !.started = ~save_now]
    /\ UNCHANGED <<capVars, ctlVars, sizeVars, listVars, storeVars, mongoVars, active, char_threshold, current_threshold_index,
                   typing_sessions, session_data, saves, expired>>

\* Timer.run(): the wait timed out and the timer was not cancelled
Expire(t) ==
    /\ t \in Timers
    /\ pc[t] = "pending"
    /\ Goto(t, "_on_idle_timeout")
    /\ expired' = expired + 1
    /\ UNCHANGED <<capVars, ctlVars, sizeVars, listVars, storeVars, mongoVars, active, timer, lock, char_count_since_save,
                   char_threshold, current_threshold_index, typing_sessions,
                   session_started, session_char_count, session_data, call,
                   saves>>

\* Timer.run() of a cancelled timer returns without calling the function
Exit(t) ==
    /\ t \in Timers
    /\ pc[t] = "cancelled"
    /\ Goto(t, "done")
    /\ UNCHANGED <<capVars, ctlVars, sizeVars, listVars, storeVars, mongoVars, active, timer, lock, char_count_since_save,
                   char_threshold, current_threshold_index, typing_sessions,
                   session_started, session_char_count, session_data, call,
                   saves, expired>>

\* the with block of _on_idle_timeout
_on_idle_timeout(t) ==
    /\ pc[t] = "_on_idle_timeout_locked"
    /\ IF session_started /\ session_char_count > 0
       THEN /\ session_data' = [session_data EXCEPT ![t] = session_char_count]
            /\ session_started' = FALSE
            /\ session_char_count' = 0
            /\ Goto(t, "_process_session_data")
       ELSE /\ Goto(t, "_trigger_save")
            /\ UNCHANGED <<session_data, session_started, session_char_count>>
    /\ lock' = Free
    /\ UNCHANGED <<capVars, ctlVars, sizeVars, listVars, storeVars, mongoVars, active, timer, char_count_since_save,
                   char_threshold, current_threshold_index, typing_sessions,
                   call, saves, expired>>

_process_session_data(t) ==
    /\ pc[t] = "_process_session_data_locked"
    /\ LET sessions == AppendSession(typing_sessions, session_data[t])
           index == _adjust_threshold(sessions, current_threshold_index)
       IN /\ typing_sessions' = sessions
          /\ current_threshold_index' = index
          /\ char_threshold' = IF index # current_threshold_index
                               THEN CHAR_COUNT_THRESHOLDS[index + 1]
                               ELSE char_threshold
    /\ lock' = Free
    /\ Goto(t, "_trigger_save")
    /\ UNCHANGED <<capVars, ctlVars, sizeVars, listVars, storeVars, mongoVars, active, timer, char_count_since_save,
                   session_started, session_char_count, session_data, call,
                   saves, expired>>

\* the first with block of _trigger_save: the active check
_trigger_save(t) ==
    /\ pc[t] = "_trigger_save_locked"
    /\ Goto(t, IF active THEN "ts_call" ELSE Return(t))
    /\ lock' = Free
    /\ UNCHANGED <<capVars, ctlVars, sizeVars, listVars, storeVars, mongoVars, active, timer, char_count_since_save,
                   char_threshold, current_threshold_index, typing_sessions,
                   session_started, session_char_count, session_data, call,
                   saves, expired>>

\* a thread that invokes the save callback counts the invocation
Invoked(t) == IF t = UI THEN [call EXCEPT !.invoked = call.invoked + 1] ELSE call

\* self.save_callback() is called in _trigger_save
ts_call(t) ==
    /\ pc[t] = "ts_call"
    /\ Goto(t, "ts_callback")
    /\ saves' = saves + 1
    /\ call' = Invoked(t)
    /\ UNCHANGED <<capVars, ctlVars, sizeVars, listVars, storeVars, mongoVars, active, timer, lock, char_count_since_save,
                   char_threshold, current_threshold_index, typing_sessions,
                   session_started, session_char_count, session_data, expired>>

\* a callback whose exception leaves _trigger_save
ts_callbackPropagates(t, raised) ==
    /\ pc[t] = "ts_callback"
    /\ Goto(t, IF raised THEN "raised" ELSE "ts_reset")
    /\ call' = IF t = UI THEN [call EXCEPT !.saved = ~raised] ELSE call
    /\ UNCHANGED <<capVars, ctlVars, sizeVars, listVars, storeVars, mongoVars, active, timer, lock, char_count_since_save,
                   char_threshold, current_threshold_index, typing_sessions,
                   session_started, session_char_count, session_data, saves,
                   expired>>
\* the callback returns, or raises and the except clause prints the error
ts_callback(t, raised) ==
    /\ pc[t] = "ts_callback"
    /\ Goto(t, IF raised THEN "ts_finally" ELSE "ts_reset")
    /\ call' = IF t = UI THEN [call EXCEPT !.saved = ~raised] ELSE call
    /\ UNCHANGED <<capVars, ctlVars, sizeVars, listVars, storeVars, mongoVars, active, timer, lock, char_count_since_save,
                   char_threshold, current_threshold_index, typing_sessions,
                   session_started, session_char_count, session_data, saves,
                   expired>>

\* the with block after a successful save
ts_reset(t) ==
    /\ pc[t] = "ts_reset_locked"
    /\ char_count_since_save' = 0
    /\ IF Reason(t) = "character count" /\ session_started
       THEN LET sessions == AppendSession(typing_sessions, session_char_count)
                index == _adjust_threshold(sessions, current_threshold_index)
            IN /\ typing_sessions' = sessions
               /\ current_threshold_index' = index
               /\ char_threshold' = IF index # current_threshold_index
                                    THEN CHAR_COUNT_THRESHOLDS[index + 1]
                                    ELSE char_threshold
               /\ session_started' = FALSE
               /\ session_char_count' = 0
       ELSE UNCHANGED <<typing_sessions, current_threshold_index,
                        char_threshold, session_started, session_char_count>>
    /\ lock' = Free
    /\ Goto(t, "ts_finally")
    /\ UNCHANGED <<capVars, ctlVars, sizeVars, listVars, storeVars, mongoVars, active, timer, session_data, call, saves, expired>>

\* the with block of the finally clause
ts_finally(t) ==
    /\ pc[t] = "ts_finally_locked"
    /\ timer' = IF timer # NoTimer /\ ~is_alive(pc, timer) THEN NoTimer ELSE timer
    /\ lock' = Free
    /\ Goto(t, Return(t))
    /\ UNCHANGED <<capVars, ctlVars, sizeVars, listVars, storeVars, mongoVars, active, char_count_since_save, char_threshold,
                   current_threshold_index, typing_sessions, session_started,
                   session_char_count, session_data, call, saves, expired>>

\* the with block of force_save(); active_check is the position it leaves to
force_save ==
    /\ pc[UI] = "force_save_locked"
    /\ timer' = NoTimer
    /\ pc' = [cancel(pc, timer) EXCEPT ![UI] = IF active THEN "fs_call" ELSE "idle"]
    /\ lock' = Free
    /\ call' = [call EXCEPT !.was_active = active]
    /\ UNCHANGED <<capVars, ctlVars, sizeVars, listVars, storeVars, mongoVars, active, char_count_since_save, char_threshold,
                   current_threshold_index, typing_sessions, session_started,
                   session_char_count, session_data, saves, expired>>

\* self.save_callback() is called in force_save
fs_call ==
    /\ pc[UI] = "fs_call"
    /\ Goto(UI, "fs_callback")
    /\ saves' = saves + 1
    /\ call' = Invoked(UI)
    /\ UNCHANGED <<capVars, ctlVars, sizeVars, listVars, storeVars, mongoVars, active, timer, lock, char_count_since_save,
                   char_threshold, current_threshold_index, typing_sessions,
                   session_started, session_char_count, session_data, expired>>

fs_callback(raised) ==
    /\ pc[UI] = "fs_callback"
    /\ Goto(UI, IF raised THEN "idle" ELSE "fs_reset")
    /\ call' = [call EXCEPT !.saved = ~raised]
    /\ UNCHANGED <<capVars, ctlVars, sizeVars, listVars, storeVars, mongoVars, active, timer, lock, char_count_since_save,
                   char_threshold, current_threshold_index, typing_sessions,
                   session_started, session_char_count, session_data, saves,
                   expired>>

\* a force_save() that leaves the character count as it is
fs_resetKeepCount ==
    /\ pc[UI] = "fs_reset_locked"
    /\ lock' = Free
    /\ Goto(UI, "idle")
    /\ UNCHANGED <<capVars, ctlVars, sizeVars, listVars, storeVars, mongoVars, active, timer, char_count_since_save, char_threshold,
                   current_threshold_index, typing_sessions, session_started,
                   session_char_count, session_data, call, saves, expired>>
\* the with block of force_save() after a successful save
fs_reset ==
    /\ pc[UI] = "fs_reset_locked"
    /\ char_count_since_save' = 0
    /\ lock' = Free
    /\ Goto(UI, "idle")
    /\ UNCHANGED <<capVars, ctlVars, sizeVars, listVars, storeVars, mongoVars, active, timer, char_threshold,
                   current_threshold_index, typing_sessions, session_started,
                   session_char_count, session_data, call, saves, expired>>

\* a new memento directory, its FileManager and the editor's IdleSaver
SaverInit == Init

SaverNext ==
    \/ \E op \in {"start", "stop", "force_save"} : Begin(op, FALSE)
    \/ \E char_added \in BOOLEAN : Begin("update", char_added)
    \/ \E t \in Threads : Acquire(t)
    \/ start
    \/ stop
    \/ update
    \/ force_save
    \/ fs_call
    \/ \E raised \in BOOLEAN : fs_callback(raised)
    \/ fs_reset
    \/ \E t \in Timers : Expire(t)
    \/ \E t \in Timers : Exit(t)
    \/ \E t \in Timers : _on_idle_timeout(t)
    \/ \E t \in Timers : _process_session_data(t)
    \/ \E t \in Threads : _trigger_save(t)
    \/ \E t \in Threads : ts_call(t)
    \/ \E t \in Threads, raised \in BOOLEAN : ts_callback(t, raised)
    \/ \E t \in Threads : ts_reset(t)
    \/ \E t \in Threads : ts_finally(t)

SaverSpec == SaverInit /\ [][SaverNext]_vars

\* ------------------------------------------- the threshold's adaptation
\* An IdleSaver that has been in use: started, two typing sessions
\* recorded (of 2 or of 10 characters each: force_save() resets the
\* character count but not the session, so a session can grow beyond the
\* threshold), a third session in progress or not, the character count
\* at 0 after a force_save(), which also cancelled the timer; the earlier
\* timers' threads have ended.  With fewer than three sessions the
\* threshold is still the initial one.
AdaptInit ==
    /\ current_index = 0
    /\ max_buffers = DEFAULT_MAX_BUFFERS
    /\ is_encrypted = FALSE
    /\ aes_key = NoKey
    /\ files = NoFiles
    /\ control = NoControl
    /\ ret = Ret("init", NoPass, NoPass, None, "ok", 0)
    /\ hist = <<>>
    /\ ops = 0
    /\ active = TRUE
    /\ timer = NoTimer
    /\ lock = Free
    /\ pc = [t \in Threads |-> IF t = UI THEN "idle" ELSE "unborn"]
    /\ char_count_since_save = 0
    /\ char_threshold = INITIAL_CHAR_THRESHOLD
    /\ current_threshold_index = 0
    /\ typing_sessions \in {<<2, 2>>, <<10, 10>>}
    /\ session_char_count \in {0, 10}
    /\ session_started = (session_char_count > 0)
    /\ session_data = [t \in Threads |-> 0]
    /\ call = Call("force_save", FALSE, 0)
    /\ saves = 0
    /\ expired = 0
    /\ MongoInit
    /\ ListInit
    /\ SizeInit
    /\ CtlInit
    /\ CapInit

AdaptSpec == AdaptInit /\ [][SaverNext]_vars

\* ------------------------------------------------------- an unending session
\* the editor stays open after start(): the UI thread goes on pressing keys
\* that add no character (editor.py passes char_added = False for every key
\* that is not a single printable character) and calling force_save()

\* the timers whose run() has not returned
Alive == {t \in Timers : is_alive(pc, t)}
\* the place of a live timer among the live timers
Rank(t) == Cardinality({u \in Alive : u <= t})
\* the live timer at place k
AtRank(k) == CHOOSE t \in Alive : Rank(t) = k

\* every threading.Timer is a new object and a new thread. A timer whose
\* run() has returned plays no part any more: cancel() on it does nothing
\* and self._timer referring to it is the same to every reader as None (the
\* finally clause of _trigger_save sets it to None). Its name is given to
\* the next timer, and the counts of calls, saves and expiries, which the
\* code does not keep, start again.
Forget ==
    /\ \E t \in Timers : pc[t] = "done"
    /\ pc' = [t \in Threads |->
                IF t = UI THEN pc[UI]
                ELSE IF t <= Cardinality(Alive) THEN pc[AtRank(t)]
                ELSE "unborn"]
    /\ session_data' = [t \in Threads |->
                          IF t = UI THEN session_data[UI]
                          ELSE IF t <= Cardinality(Alive)
                               THEN session_data[AtRank(t)]
                               ELSE 0]
    /\ timer' = IF timer \in Alive THEN Rank(timer) ELSE NoTimer
    /\ lock' = IF lock \in Alive THEN Rank(lock) ELSE lock
    /\ call' = [call EXCEPT !.n = 0]
    /\ saves' = 0
    /\ expired' = 0
    /\ UNCHANGED <<capVars, ctlVars, sizeVars, listVars, storeVars, mongoVars,
                   active, char_count_since_save, char_threshold,
                   current_threshold_index, typing_sessions, session_started,
                   session_char_count>>

StarveNext ==
    \/ Begin("update", FALSE)
    \/ Begin("force_save", FALSE)
    \/ \E t \in Threads : Acquire(t)
    \/ update
    \/ force_save
    \/ fs_call
    \/ \E raised \in BOOLEAN : fs_callback(raised)
    \/ fs_reset
    \/ \E t \in Timers : Expire(t)
    \/ \E t \in Timers : Exit(t)
    \/ \E t \in Timers : _on_idle_timeout(t)
    \/ \E t \in Timers : _process_session_data(t)
    \/ \E t \in Timers : _trigger_save(t)
    \/ \E t \in Timers : ts_call(t)
    \/ \E t \in Timers, raised \in BOOLEAN : ts_callback(t, raised)
    \/ \E t \in Timers : ts_reset(t)
    \/ \E t \in Timers : ts_finally(t)
    \/ Forget

\* a started timer fires unless it is cancelled, a thread that keeps asking
\* for the lock gets it, and every thread goes on with the function it
\* is in (the callback returns or raises); when the UI thread makes its
\* next call is up to the user
StarveFair ==
    /\ \A t \in Threads : SF_vars(Acquire(t))
    /\ WF_vars(update)
    /\ WF_vars(force_save)
    /\ WF_vars(fs_call)
    /\ WF_vars(\E raised \in BOOLEAN : fs_callback(raised))
    /\ WF_vars(fs_reset)
    /\ \A t \in Timers :
         /\ WF_vars(Expire(t))
         /\ WF_vars(Exit(t))
         /\ WF_vars(_on_idle_timeout(t))
         /\ WF_vars(_process_session_data(t))
         /\ WF_vars(_trigger_save(t))
         /\ WF_vars(ts_call(t))
         /\ WF_vars(\E raised \in BOOLEAN : ts_callback(t, raised))
         /\ WF_vars(ts_reset(t))
         /\ WF_vars(ts_finally(t))

StarveSpec == AdaptInit /\ [][StarveNext]_vars /\ StarveFair

\* --------------------------------------------------- the connection manager
MGoto(t, p) == mpc' = [mpc EXCEPT ![t] = p]

\* caller t returns: the call's boolean result and the handle it hands out
MReturn(t, ok, handle, raised) ==
    /\ MGoto(t, "idle")
    /\ mret' = [mret EXCEPT ![t].ok = ok, ![t].handle = handle, ![t].raised = raised]

\* a heartbeat thread at the head of its while loop
HeartbeatLoop(shutting_down) == IF shutting_down THEN "dead" ELSE "sleeping"

\* the MongoClient objects a call of op can create
Needs(op) ==
    CASE op \in {"init", "FileManager"} -> 1
      [] op \in {"get_client", "get_database", "get_collection"} -> MAX_RECONNECT_ATTEMPTS
      [] OTHER -> 0

\* the MongoClient objects created so far or still to be created by the
\* calls in progress
Reserved ==
    LET left(u) == IF mpc[u] = "idle" THEN 0 ELSE Needs(mret[u].op) - mret[u].tries
    IN NextClient(clients) - 1 + left(1) + left(2)

\* a caller calls init(mongodb_uri), get_client(), get_database(),
\* get_collection(), is_connected() or shutdown(); what is decided before
\* the lock is taken is decided here
MBegin(t, op, arg) ==
    /\ mpc[t] = "idle"
    /\ mcalls < MaxMongoCalls
    /\ Reserved + Needs(op) <= MaxClients
    /\ mcalls' = mcalls + 1
    /\ LET c == MCall(op, arg, \E u \in Callers : mpc[u] = "rc_sleep", probe_failed)
           unlocked == (op = "init" /\ ~arg)
                       \/ (op \notin {"init", "shutdown"} /\ ~instance)
       IN /\ mret' = [mret EXCEPT ![t] = c]
          /\ MGoto(t, IF unlocked THEN "idle" ELSE op)
    /\ UNCHANGED <<capVars, ctlVars, sizeVars, listVars, storeVars, saverVars, instance, client, db, uri,
                   last_ping_recent, is_shutting_down, connection_lock, clients,
                   remote_up, attempt, heartbeat, hb_slept, probe_failed>>

MLockPoints == {"init", "get_client", "get_database", "get_collection",
                "is_connected", "shutdown"}

MLocked(p) ==
    CASE p = "init" -> "init_locked"
      [] p \in {"get_client", "get_database", "get_collection"} -> "get_locked"
      [] p = "is_connected" -> "is_connected_locked"
      [] p = "shutdown" -> "shutdown_locked"

\* with cls._connection_lock
MAcquire(t) ==
    /\ mpc[t] \in MLockPoints
    /\ connection_lock = Unlocked
    /\ connection_lock' = t
    /\ MGoto(t, MLocked(mpc[t]))
    /\ UNCHANGED <<capVars, ctlVars, sizeVars, listVars, storeVars, saverVars, instance, client, db, uri,
                   last_ping_recent, is_shutting_down, clients, remote_up,
                   attempt, mret, heartbeat, hb_slept, probe_failed, mcalls>>

\* the with block of init(): the singleton, the connection parameters, the
\* first connection and, if that succeeded, the heartbeat monitor
init(t) ==
    /\ mpc[t] = "init_locked"
    /\ LET new == NextClient(clients)
           e == _establish_connection(remote_up, new)
           start_monitor == e.result /\ heartbeat \in {"none", "dead"}
       IN /\ instance' = TRUE
          /\ uri' = TRUE
          /\ client' = e.client
          /\ db' = e.db
          /\ clients' = [clients EXCEPT ![new] = e.made]
          /\ last_ping_recent' = IF e.result THEN TRUE ELSE last_ping_recent
          /\ heartbeat' = IF start_monitor THEN HeartbeatLoop(is_shutting_down)
                          ELSE heartbeat
          /\ hb_slept' = IF start_monitor THEN FALSE ELSE hb_slept
          /\ probe_failed' = IF e.result THEN FALSE ELSE probe_failed
          /\ mret' = [mret EXCEPT ![t].ok = e.result, ![t].raised = e.raised,
                                  ![t].tries = 1]
    /\ MGoto(t, "idle")
    /\ connection_lock' = Unlocked
    /\ UNCHANGED <<capVars, ctlVars, sizeVars, listVars, storeVars, saverVars, is_shutting_down, remote_up, attempt, mcalls>>

\* the handle get_client/get_database/get_collection hands out
Handle(op, c, d) == IF op = "get_client" THEN c ELSE d

\* the with block of get_client/get_database up to the end of
\* _ensure_connection_alive or its call of _reconnect_with_backoff
_ensure_connection_alive(t) ==
    /\ mpc[t] = "get_locked"
    /\ IF is_shutting_down
       THEN /\ MReturn(t, FALSE, NoClient, FALSE)
            /\ connection_lock' = Unlocked
            /\ UNCHANGED <<last_ping_recent, attempt, probe_failed>>
       ELSE IF client = NoClient \/ db = NoClient
       THEN /\ MGoto(t, "rc_check")
            /\ attempt' = [attempt EXCEPT ![t] = 0]
            /\ UNCHANGED <<connection_lock, last_ping_recent, mret, probe_failed>>
       ELSE IF ~last_ping_recent
       THEN IF remote_up
            THEN /\ last_ping_recent' = TRUE
                 /\ probe_failed' = FALSE
                 /\ MReturn(t, TRUE, Handle(mret[t].op, client, db), FALSE)
                 /\ connection_lock' = Unlocked
                 /\ UNCHANGED attempt
            ELSE /\ MGoto(t, "rc_check")
                 /\ attempt' = [attempt EXCEPT ![t] = 0]
                 /\ UNCHANGED <<connection_lock, last_ping_recent, mret, probe_failed>>
       ELSE /\ MReturn(t, TRUE, Handle(mret[t].op, client, db), FALSE)
            /\ connection_lock' = Unlocked
            /\ UNCHANGED <<last_ping_recent, attempt, probe_failed>>
    /\ UNCHANGED <<capVars, ctlVars, sizeVars, listVars, storeVars, saverVars, instance, client, db, uri,
                   is_shutting_down, clients, remote_up, heartbeat, hb_slept, mcalls>>

\* the head of the loop of _reconnect_with_backoff
rc_check(t) ==
    /\ mpc[t] = "rc_check"
    /\ IF attempt[t] >= MAX_RECONNECT_ATTEMPTS \/ is_shutting_down
       THEN /\ MReturn(t, FALSE, NoClient, FALSE)
            /\ connection_lock' = Unlocked
       ELSE /\ MGoto(t, IF attempt[t] > 0 THEN "rc_sleep" ELSE "rc_attempt")
            /\ UNCHANGED <<connection_lock, mret>>
    /\ UNCHANGED <<capVars, ctlVars, sizeVars, listVars, storeVars, saverVars, instance, client, db, uri,
                   last_ping_recent, is_shutting_down, clients, remote_up,
                   attempt, heartbeat, hb_slept, probe_failed, mcalls>>

\* time.sleep(delay) is over
rc_sleep(t) ==
    /\ mpc[t] = "rc_sleep"
    /\ MGoto(t, "rc_attempt")
    /\ UNCHANGED <<capVars, ctlVars, sizeVars, listVars, storeVars, saverVars, instance, client, db, uri,
                   last_ping_recent, is_shutting_down, connection_lock, clients,
                   remote_up, attempt, mret, heartbeat, hb_slept, probe_failed,
                   mcalls>>

\* one attempt: the old client is closed and dropped, a new one is made
rc_attempt(t) ==
    /\ mpc[t] = "rc_attempt"
    /\ LET new == NextClient(clients)
           e == _establish_connection(remote_up, new)
       IN /\ client' = e.client
          /\ db' = e.db
          /\ clients' = [close(clients, client) EXCEPT ![new] = e.made]
          /\ last_ping_recent' = IF e.result THEN TRUE ELSE last_ping_recent
          /\ probe_failed' = FALSE
          /\ attempt' = [attempt EXCEPT ![t] = attempt[t] + 1]
          /\ IF e.result \/ e.raised
             THEN /\ mpc' = [mpc EXCEPT ![t] = "idle"]
                  /\ mret' = [mret EXCEPT ![t].ok = e.result,
                                          ![t].handle = Handle(mret[t].op, e.client, e.db),
                                          ![t].raised = e.raised,
                                          ![t].tries = mret[t].tries + 1]
                  /\ connection_lock' = Unlocked
             ELSE /\ mpc' = [mpc EXCEPT ![t] = "rc_check"]
                  /\ mret' = [mret EXCEPT ![t].tries = mret[t].tries + 1]
                  /\ UNCHANGED connection_lock
    /\ UNCHANGED <<capVars, ctlVars, sizeVars, listVars, storeVars, saverVars, instance, uri, is_shutting_down,
                   remote_up, heartbeat, hb_slept, mcalls>>

is_connected(t) ==
    /\ mpc[t] = "is_connected_locked"
    /\ MReturn(t, client # NoClient /\ db # NoClient, NoClient, FALSE)
    /\ connection_lock' = Unlocked
    /\ UNCHANGED <<capVars, ctlVars, sizeVars, listVars, storeVars, saverVars, instance, client, db, uri,
                   last_ping_recent, is_shutting_down, clients, remote_up,
                   attempt, heartbeat, hb_slept, probe_failed, mcalls>>

\* the with block of shutdown(); the join of the heartbeat thread times
\* out or returns and changes nothing
shutdown(t) ==
    /\ mpc[t] = "shutdown_locked"
    /\ is_shutting_down' = TRUE
    /\ clients' = close(clients, client)
    /\ client' = IF client # NoClient THEN NoClient ELSE client
    /\ db' = IF client # NoClient THEN NoClient ELSE db
    /\ MReturn(t, TRUE, NoClient, FALSE)
    /\ connection_lock' = Unlocked
    /\ UNCHANGED <<capVars, ctlVars, sizeVars, listVars, storeVars, saverVars, instance, uri, last_ping_recent,
                   remote_up, attempt, heartbeat, hb_slept, probe_failed, mcalls>>

\* FileManager(memento_id): its EncryptionManager makes a MongoClient of its
\* own when the environment names a server, keeps it if the server answers
\* and never closes it
NewFileManager(t) ==
    /\ mpc[t] = "idle"
    /\ mcalls < MaxMongoCalls
    /\ uri
    /\ Reserved + Needs("FileManager") <= MaxClients
    /\ mcalls' = mcalls + 1
    /\ LET new == NextClient(clients) IN
       clients' = [clients EXCEPT ![new] = IF remote_up THEN "open" ELSE "unconnected"]
    /\ mret' = [mret EXCEPT ![t] = [MCall("FileManager", TRUE, FALSE, FALSE) EXCEPT !.tries = 1]]
    /\ UNCHANGED <<capVars, ctlVars, sizeVars, listVars, storeVars, saverVars, instance, client, db, uri,
                   last_ping_recent, is_shutting_down, connection_lock, remote_up,
                   mpc, attempt, heartbeat, hb_slept, probe_failed>>

\* heartbeat_loop: time.sleep(HEARTBEAT_INTERVAL_SEC) is over
HeartbeatWake ==
    /\ heartbeat = "sleeping"
    /\ hb_slept
    /\ heartbeat' = IF is_shutting_down THEN "dead" ELSE "due"
    /\ UNCHANGED <<capVars, ctlVars, sizeVars, listVars, storeVars, saverVars, instance, client, db, uri,
                   last_ping_recent, is_shutting_down, connection_lock, clients,
                   remote_up, mpc, attempt, mret, hb_slept, probe_failed, mcalls>>

HeartbeatAcquire ==
    /\ heartbeat = "due"
    /\ connection_lock = Unlocked
    /\ connection_lock' = HB
    /\ heartbeat' = "locked"
    /\ UNCHANGED <<capVars, ctlVars, sizeVars, listVars, storeVars, saverVars, instance, client, db, uri,
                   last_ping_recent, is_shutting_down, clients, remote_up, mpc,
                   attempt, mret, hb_slept, probe_failed, mcalls>>

\* the with block of heartbeat_loop.  `if cls._client and cls._db` asks a
\* pymongo Database for its truth value, which raises NotImplementedError
\* in the pymongo versions that define Database.__bool__ that way (the loop
\* catches and logs it) and is true in the others; then the ping, whose
\* failure is logged
HeartbeatProbe(bool_raises) ==
    /\ heartbeat = "locked"
    /\ IF client # NoClient /\ db # NoClient /\ ~bool_raises
       THEN /\ last_ping_recent' = IF remote_up THEN TRUE ELSE last_ping_recent
            /\ probe_failed' = ~remote_up
       ELSE UNCHANGED <<last_ping_recent, probe_failed>>
    /\ connection_lock' = Unlocked
    /\ heartbeat' = HeartbeatLoop(is_shutting_down)
    /\ hb_slept' = FALSE
    /\ UNCHANGED <<capVars, ctlVars, sizeVars, listVars, storeVars, saverVars, instance, client, db, uri,
                   is_shutting_down, clients, remote_up, mpc, attempt, mret, mcalls>>

\* more than 30 seconds pass
Tick ==
    /\ last_ping_recent \/ ~hb_slept
    /\ last_ping_recent' = FALSE
    /\ hb_slept' = TRUE
    /\ UNCHANGED <<capVars, ctlVars, sizeVars, listVars, storeVars, saverVars, instance, client, db, uri,
                   is_shutting_down, connection_lock, clients, remote_up, mpc,
                   attempt, mret, heartbeat, probe_failed, mcalls>>

\* the server goes down or comes back
RemoteChange ==
    /\ remote_up' = ~remote_up
    /\ UNCHANGED <<capVars, ctlVars, sizeVars, listVars, storeVars, saverVars, instance, client, db, uri,
                   last_ping_recent, is_shutting_down, connection_lock, clients,
                   mpc, attempt, mret, heartbeat, hb_slept, probe_failed, mcalls>>

MongoNext ==
    \/ \E t \in Callers, arg \in BOOLEAN : MBegin(t, "init", arg)
    \/ \E t \in Callers, op \in MLockPoints \ {"init"} : MBegin(t, op, FALSE)
    \/ \E t \in Callers : MAcquire(t)
    \/ \E t \in Callers : init(t)
    \/ \E t \in Callers : _ensure_connection_alive(t)
    \/ \E t \in Callers : rc_check(t)
    \/ \E t \in Callers : rc_sleep(t)
    \/ \E t \in Callers : rc_attempt(t)
    \/ \E t \in Callers : is_connected(t)
    \/ \E t \in Callers : shutdown(t)
    \/ \E t \in Callers : NewFileManager(t)
    \/ HeartbeatWake
    \/ HeartbeatAcquire
    \/ \E bool_raises \in BOOLEAN : HeartbeatProbe(bool_raises)
    \/ Tick
    \/ RemoteChange

MongoSpec == Init /\ [][MongoNext]_vars

\* ------------------------------------------------ listing: the operations
\* a write to memento i on this machine: its directory and control file
\* exist afterwards, last_modified is the time of the write
WriteLocal(i) ==
    /\ now <= MaxListOps
    /\ local_dirs' = [local_dirs EXCEPT ![i] = now]
    /\ now' = now + 1
    /\ listed' = "no"
    /\ lret' = LRet("write_snapshot", i, TRUE)
    /\ UNCHANGED <<capVars, ctlVars, sizeVars, content_docs, mementos, storeVars, saverVars, mongoVars>>

\* save_encrypted_content, here or on another machine sharing the
\* collection: insert_one adds a content document, whatever documents the
\* memento already has
InsertContent(i) ==
    /\ now <= MaxListOps
    /\ remote_up
    /\ content_docs' = Append(content_docs, ContentDoc(i, now))
    /\ now' = now + 1
    /\ listed' = "no"
    /\ lret' = LRet("insert_one", i, TRUE)
    /\ UNCHANGED <<capVars, ctlVars, sizeVars, local_dirs, mementos, storeVars, saverVars, mongoVars>>

\* list_mementos, from the first loop on; has_mongodb_support is true
\* exactly when the server is up
list_mementos ==
    /\ mementos' = Listing(local_dirs, content_docs, remote_up)
    /\ listed' = IF remote_up THEN "remote" ELSE "local"
    /\ lret' = LRet("list_mementos", 0, TRUE)
    /\ UNCHANGED <<capVars, ctlVars, sizeVars, local_dirs, content_docs, now, storeVars, saverVars, mongoVars>>

\* FileManager.load_memento(memento_id)
LoadMemento(i) ==
    /\ lret' = LRet("load_memento", i, load_memento(local_dirs, i))
    /\ UNCHANGED <<capVars, ctlVars, sizeVars, local_dirs, content_docs, mementos, listed, now,
                   storeVars, saverVars, mongoVars>>

\* FileManager.create_new_memento(): the next id, a FileManager for it and
\* write_snapshot(""), which makes the directory and its control file
create_new_memento ==
    LET memento_id == get_next_memento_id(local_dirs) IN
    /\ now <= MaxListOps
    /\ memento_id \in MementoIds
    /\ local_dirs' = [local_dirs EXCEPT ![memento_id] = now]
    /\ now' = now + 1
    /\ listed' = "no"
    /\ lret' = LRet("create_new_memento", memento_id, TRUE)
    /\ UNCHANGED <<capVars, ctlVars, sizeVars, content_docs, mementos, storeVars, saverVars, mongoVars>>

ListNext ==
    \/ \E i \in MementoIds : WriteLocal(i)
    \/ \E i \in MementoIds : InsertContent(i)
    \/ list_mementos
    \/ \E i \in MementoIds : LoadMemento(i)
    \/ create_new_memento
    \/ RemoteChange

ListSpec == Init /\ [][ListNext]_vars

\* ------------------------------------------- calculate_buffer_size alone
CalculateBufferSize(n) ==
    /\ text_size_bytes' = n
    /\ buffer_size' = calculate_buffer_size(n)
    /\ UNCHANGED <<capVars, ctlVars, storeVars, saverVars, mongoVars, listVars>>

SizeNext == \E n \in Sizes : CalculateBufferSize(n)

SizeSpec == Init /\ [][SizeNext]_vars

\* ------------------------------------------------ control.json by itself
\* _save_control_file of a FileManager holding m
SaveControl(m) ==
    /\ control_file' = json_dump(m)
    /\ saved' = m
    /\ cret' = CRet("_save_control_file", "no")
    /\ UNCHANGED <<capVars, manager2, storeVars, saverVars, mongoVars, listVars, sizeVars>>

\* the file is removed, or damaged in one of the three ways
Damage(kind) ==
    /\ control_file' = File(kind, NoData)
    /\ saved' = NoManager
    /\ cret' = CRet("damage", "no")
    /\ UNCHANGED <<capVars, manager2, storeVars, saverVars, mongoVars, listVars, sizeVars>>

\* _load_control_file of a second manager that holds m, as in
\* test_control_file
LoadControl(m, t) ==
    LET r == load_control_json(m, control_file, t) IN
    /\ manager2' = r.manager
    /\ cret' = CRet("_load_control_file", r.raised)
    /\ UNCHANGED <<capVars, control_file, saved, storeVars, saverVars, mongoVars, listVars, sizeVars>>

\* FileManager(memento_id) over the directory
Construct(t) ==
    LET r == load_control_json(FreshManager(t), control_file, t) IN
    /\ manager2' = r.manager
    /\ cret' = CRet("FileManager", r.raised)
    /\ UNCHANGED <<capVars, control_file, saved, storeVars, saverVars, mongoVars, listVars, sizeVars>>

CtlNext ==
    \/ \E m \in Managers : SaveControl(m)
    \/ \E kind \in {"missing", "syntax", "array", "bytes"} : Damage(kind)
    \/ \E m \in Managers, t \in Times : LoadControl(m, t)
    \/ \E t \in Times : Construct(t)

CtlSpec == Init /\ [][CtlNext]_vars

\* ===================================================================== claims
\* the last step was a call of operation op (ret is set by every call)
Called(op) == ops' = ops + 1 /\ ret'.op = op

\* the current slot holds a ciphertext made under another passphrase than p
CurrentEncryptedUnderOther(p) ==
    /\ is_encrypted
    /\ Exists(Self, <<current_index, "enc">>)
    /\ files[<<current_index, "enc">>].kind = "enc"
    /\ files[<<current_index, "enc">>].key # derive_aes_key(p, MEMENTO_ID)

\* C1: in every reachable state of a FileManager 0 <= current_index < max_buffers.
C1_IndexInRange == 0 <= current_index /\ current_index < max_buffers

\* a write that shrank the ring to 3 slots wrapped the index to slot 0
C1_Witness ==
    /\ ret.op = "write_snapshot"
    /\ ret.result = "ok"
    /\ max_buffers = MIN_BUFFER_SIZE
    /\ current_index = 0
    /\ ops = 3

\* C2: after two consecutive writes a then b, load_snapshot(-1) returns a,
\* whatever resize the second write performed.
C2_PreviousSurvivesWrite ==
    Len(hist) = 2 => load_snapshot(Self, -1) = hist[1]

\* C3: verify_passphrase(q) returns false when the current snapshot was
\* encrypted under a passphrase other than q.
C3_WrongPassphraseRejected ==
    (ret.op = "verify_passphrase" /\ CurrentEncryptedUnderOther(ret.p))
        => ret.result = "False"

\* C4: disable_encryption(q) with q not the passphrase of the current
\* snapshot raises the invalid-passphrase error and leaves is_encrypted and
\* every slot file as they were.
C4_DisableWrongPassphraseFails ==
    [][(Called("disable_encryption") /\ CurrentEncryptedUnderOther(ret'.p))
          => /\ ret'.result = "ValueError: Invalid passphrase"
             /\ is_encrypted'
             /\ files' = files]_vars

\* C5: change_passphrase(old, new) with old not decrypting the current
\* snapshot raises the invalid-passphrase error and leaves the loaded key,
\* every slot and the control record as they were.
C5_ChangeWrongPassphraseFails ==
    [][(Called("change_passphrase") /\ CurrentEncryptedUnderOther(ret'.p))
          => /\ ret'.result = "ValueError: Invalid current passphrase"
             /\ aes_key' = aes_key
             /\ files' = files
             /\ control' = control]_vars

\* C6: after a change_passphrase(old, new) that returned, every slot that
\* decrypted under the key of old loads under the key of new with the same
\* content, and current_index and max_buffers are unchanged.
C6_ChangePassphraseKeepsHistory ==
    [][(Called("change_passphrase") /\ ret'.result = "no")
          => /\ \A i \in 0 .. (max_buffers - 1) :
                  LET before == _load_snapshot_at_index(_prepare_aes_key(Self, ret'.p), i) IN
                  before # None
                    => _load_snapshot_at_index(_prepare_aes_key(Self', ret'.q), i) = before
             /\ current_index' = current_index
             /\ max_buffers' = max_buffers]_vars

\* change_passphrase(p, q), p # q, re-encrypted two slots, which now load
\* under the key it left loaded
C6_Witness ==
    /\ ret.op = "change_passphrase"
    /\ ret.result = "no"
    /\ ret.p # ret.q
    /\ ret.n >= 2
    /\ aes_key = derive_aes_key(ret.q, MEMENTO_ID)
    /\ Cardinality({i \in 0 .. (max_buffers - 1) :
                      _load_snapshot_at_index(Self, i) # None}) >= 2

\* C7: while the memento is encrypted (flag set in the FileManager and in
\* its control record) every slot file holds a ciphertext and no .txt slot
\* remains.
C7_NoPlaintextAtRest ==
    (is_encrypted /\ control.exists /\ control.is_encrypted)
        => \A path \in DOMAIN files :
              /\ path[2] = "enc"
              /\ files[path].kind = "enc"

\* C8: only enable_encryption and disable_encryption change is_encrypted;
\* every other call, constructing the FileManager anew included, leaves it.
C8_EncryptedFlagFrame ==
    [][(ops' = ops + 1 /\ ret'.op \notin {"enable_encryption", "disable_encryption"})
          => is_encrypted' = is_encrypted]_vars

C10_WrapIndexAsStated ==
    ops >= max_buffers =>
        /\ FileCount = max_buffers
        /\ current_index = (ops - max_buffers - 1) % max_buffers

\* C10 amended: after capacity + k writes there are capacity slot files
\* and current_index = k mod capacity.
C10_WrapIndex ==
    ops >= max_buffers =>
        /\ FileCount = max_buffers
        /\ current_index = (ops - max_buffers) % max_buffers

\* 10 + 2 writes into the ring of 10 slots
C10_Witness ==
    /\ max_buffers = DEFAULT_MAX_BUFFERS
    /\ ops = max_buffers + 2
    /\ current_index = 2
    /\ FileCount = max_buffers

\* the outcome of a call that hit one of the contract checks
ContractErrors == {"ValueError: already encrypted", "ValueError: not encrypted"}

C12_EnableDisableKeepContent ==
    [][/\ (Called("enable_encryption") /\ ret'.result = "no")
            => /\ is_encrypted'
               /\ load_current_snapshot(Self') = load_current_snapshot(Self)
       /\ (Called("disable_encryption") /\ ret'.result = "no"
             /\ ret.op = "enable_encryption" /\ ret.result = "no" /\ ret'.p = ret.p)
            => /\ ~is_encrypted'
               /\ load_current_snapshot(Self') = load_current_snapshot(Self)]_vars

\* write 100 KB text, enable_encryption(p), disable_encryption(p): the text
\* is the current snapshot of the plain memento again
C12_Witness ==
    /\ ret.op = "disable_encryption"
    /\ ret.result = "no"
    /\ ops = 3
    /\ ~is_encrypted
    /\ current_index = 3
    /\ load_current_snapshot(Self) = TextA1

\* C13: enable_encryption on an encrypted memento, and disable_encryption
\* and change_passphrase on a plain one, raise before a key is derived, a
\* slot is touched or is_encrypted is changed.
C13_ContractChecksFirst ==
    [][((Called("enable_encryption") /\ is_encrypted)
        \/ (Called("disable_encryption") /\ ~is_encrypted)
        \/ (Called("change_passphrase") /\ ~is_encrypted))
          => /\ ret'.result \in ContractErrors
             /\ UNCHANGED <<current_index, max_buffers, is_encrypted, aes_key,
                            files, control>>]_vars

\* enable_encryption(p) refused on a memento encrypted under another key,
\* which stays loaded
C13_Witness ==
    /\ ret.op = "enable_encryption"
    /\ ret.result = "ValueError: already encrypted"
    /\ is_encrypted
    /\ aes_key # NoKey
    /\ aes_key # derive_aes_key(ret.p, MEMENTO_ID)

\* the three ways the load of the current slot fails
CurrentSlotMissing == ~Exists(Self, _get_snapshot_path(Self, current_index))

CurrentDecryptFails ==
    /\ ~CurrentSlotMissing
    /\ is_encrypted /\ aes_key # NoKey
    /\ ~decrypt_data(files[_get_snapshot_path(Self, current_index)], aes_key).ok

CurrentDecodeFails ==
    /\ ~CurrentSlotMissing
    /\ ~(is_encrypted /\ aes_key # NoKey)
    /\ files[_get_snapshot_path(Self, current_index)].kind = "enc"

\* C14: load_current_snapshot never returns None; on a missing slot, a
\* decode failure or a decrypt failure it returns the empty text.
C14_LoadCurrentNeverNone ==
    ret.op = "load_current_snapshot"
        => /\ ret.t # None
           /\ ret.result = "ok"
           /\ (CurrentSlotMissing \/ CurrentDecryptFails \/ CurrentDecodeFails)
                => ret.t = EmptyText

\* load_current_snapshot of a non-empty snapshot under a wrong key
C14_Witness ==
    /\ ret.op = "load_current_snapshot"
    /\ ret.t = EmptyText
    /\ CurrentDecryptFails
    /\ files[<<current_index, "enc">>].text # EmptyText

\* C37: when from some point on every write_snapshot writes a text of one
\* size s, then after finitely many writes max_buffers is
\* calculate_buffer_size(s) and stays so, whatever current_index and
\* max_buffers were at that point.  Under writes of one size the next
\* (current_index, max_buffers) is determined by the present one, so the
\* capacity is reached after finitely many writes exactly when no write
\* leads back to a pair the FileManager has been in since that point with
\* max_buffers still different from calculate_buffer_size(s).
C37_CapacityFollowsSize ==
    [][(steady # None /\ steady' = steady /\ current_index' # current_index
          /\ max_buffers' # calculate_buffer_size(steady.size))
         => <<current_index', max_buffers'>> \notin seen]_vars

\* C40: when write_snapshot fails writing the slot, after an earlier
\* write_snapshot that succeeded, the error reaches the caller and
\* current_index (in the FileManager and in control.json) is as before the
\* call, so that load_current_snapshot() returns what it returned before.
C40_FailedWriteKeepsStore ==
    [][(ops' = ops + 1 /\ hist # <<>> /\ ret'.op = "write_snapshot"
          /\ ret'.result = "raise: OSError (slot file)")
         => /\ current_index' = current_index
            /\ control'.current_index = control.current_index
            /\ load_current_snapshot(Self)' = load_current_snapshot(Self)]_vars

\* ------------------------------------------------- claims on the IdleSaver
\* thread t is inside the save callback
InCallback(t) == pc[t] \in {"ts_callback", "fs_callback"}

\* the timers that are started, not cancelled and have not fired
PendingTimers == {t \in Timers : pc[t] = "pending"}

\* stop() has returned (or start() was never called) and start() has not
\* been called since
Stopped == ~active /\ pc[UI] \notin {"start", "start_locked"}

\* C15: under every interleaving of update()/force_save() on the UI thread
\* and idle timeouts on timer threads, two invocations of the save callback
\* never overlap: at most one thread is inside the callback.
C15_CallbacksNeverOverlap == Cardinality({t \in Threads : InCallback(t)}) <= 1

\* C16: the save callback is invoked without the lock held by the invoking
\* thread on every path (threshold save in update, idle timeout,
\* force_save), so a callback that calls update(), force_save() or stop()
\* cannot deadlock: a thread that is in the callback, about to invoke it or
\* about to acquire the lock does not hold the lock, and whoever holds it
\* is inside a with block (which it leaves in one step).
C16_CallbackOutsideLock ==
    /\ \A t \in Threads :
          (InCallback(t) \/ pc[t] \in {"ts_call", "fs_call"} \/ pc[t] \in LockPoints)
              => lock # t
    /\ lock # Free => pc[lock] \in {Locked(p) : p \in LockPoints}

\* a threshold save of update() is inside the callback on the UI thread
\* while a timer thread that fired holds the lock
C16_Witness ==
    /\ pc[UI] = "ts_callback" /\ call.op = "update"
    /\ call.arg /\ call.count >= call.threshold
    /\ lock \in Timers

\* C17: after stop() has returned there is no pending timer and the save
\* callback is not invoked again until start() is called.
C17_StopEndsSaving ==
    [][Stopped => (saves' = saves /\ PendingTimers' = {})]_vars

\* C18: at most one debounce timer is pending in every reachable state (and
\* it is the one self._timer refers to).
C18_OnePendingTimer ==
    /\ Cardinality(PendingTimers) <= 1
    /\ PendingTimers # {} => PendingTimers = {timer}

\* a timer is pending while an earlier one, which fired, is still inside
\* the callback
C18_Witness ==
    \E t, u \in Timers : pc[t] = "ts_callback" /\ pc[u] = "pending" /\ timer = u

\* ---------------------------------------------------------------- a burst
\* start(), then a burst of update() calls: no call brings the character
\* count to the threshold, and every call is made, and has cancelled the
\* previous call's timer, before that timer expires
BurstUpdate(char_added) ==
    /\ call.n >= 1
    /\ expired = 0
    /\ ~should_save_now(char_added, char_count_since_save + 1, char_threshold)
    /\ Begin("update", char_added)

BurstExpire(t) ==
    /\ pc[UI] = "idle"
    /\ Expire(t)

DebounceNext ==
    \/ call.n = 0 /\ Begin("start", FALSE)
    \/ \E char_added \in BOOLEAN : BurstUpdate(char_added)
    \/ \E t \in Threads : Acquire(t)
    \/ start
    \/ update
    \/ \E t \in Timers : BurstExpire(t)
    \/ \E t \in Timers : Exit(t)
    \/ \E t \in Timers : _on_idle_timeout(t)
    \/ \E t \in Timers : _process_session_data(t)
    \/ \E t \in Timers : _trigger_save(t)
    \/ \E t \in Timers : ts_call(t)
    \/ \E t \in Timers, raised \in BOOLEAN : ts_callback(t, raised)
    \/ \E t \in Timers : ts_reset(t)
    \/ \E t \in Timers : ts_finally(t)

DebounceSpec == Init /\ [][DebounceNext]_vars

\* the timer the last update() of the burst created
LastTimer == NewTimer(pc) - 1

\* every thread has come to rest
Quiet == pc[UI] = "idle" /\ \A t \in Timers : pc[t] \in {"unborn", "cancelled", "done"}

C20_ThresholdSave ==
    [][(call.op = "update" /\ pc[UI] # "idle" /\ pc'[UI] = "idle" /\ call'.was_active)
         => IF call'.arg /\ call'.count >= call'.threshold
            THEN /\ call'.invoked = 1
                 /\ ~call'.started
                 /\ call'.saved => char_count_since_save' = 0
            ELSE /\ call'.invoked = 0
                 /\ call'.started
                 /\ Cardinality(PendingTimers') = 1]_vars

\* an update() that reached the threshold has returned after a successful
\* save
C20_Witness ==
    /\ pc[UI] = "idle" /\ call.op = "update" /\ call.was_active
    /\ call.arg /\ call.count = call.threshold
    /\ call.invoked = 1 /\ call.saved /\ ~call.started
    /\ char_count_since_save = 0 /\ PendingTimers = {}

\* C21: starting from threshold 2, after N saves triggered by the character
\* count reaching the threshold, the threshold is min(2 + 2N, 20).  As long
\* as no idle timer has fired, the recorded sessions are exactly the
\* successful threshold saves.
C21_ThresholdProgression ==
    expired = 0 => char_threshold = Min(2 + 2 * Len(typing_sessions), 20)

\* the UI thread returns from the call op
Returns(op) == call.op = op /\ pc[UI] # "idle" /\ pc'[UI] = "idle"

\* C22: force_save() cancels any pending timer in every state; when the
\* IdleSaver is active it has invoked the save callback exactly once when it
\* returns and has reset the character count to 0 if the callback returned
\* normally; when stopped it does not invoke the callback.
C22_ForceSave ==
    [][/\ (pc[UI] = "force_save_locked" /\ pc'[UI] # "force_save_locked")
            => PendingTimers' = {} /\ timer' = NoTimer
       /\ Returns("force_save")
            => /\ PendingTimers' = {}
               /\ IF call'.was_active
                  THEN /\ call'.invoked = 1
                       /\ call'.saved => char_count_since_save' = 0
                  ELSE call'.invoked = 0]_vars

\* force_save() has returned after it cancelled timer 1 and saved: the
\* character count is 0 while the typing session, which only force_save
\* leaves open, has characters
C22_Witness ==
    /\ pc[UI] = "idle" /\ call.op = "force_save" /\ call.was_active
    /\ call.invoked = 1 /\ call.saved
    /\ pc[1] \in {"cancelled", "done"} /\ expired = 0
    /\ session_char_count > 0 /\ char_count_since_save = 0

\* C23: an exception raised by the save callback does not leave update(),
\* force_save() or the timer thread: the thread goes on in the function that
\* called the callback; the IdleSaver stays active; and the next update()
\* that finds the count at or above the threshold invokes the callback again.
C23_CallbackExceptionCaught ==
    [][/\ \A t \in Threads :
            (InCallback(t) /\ ~InCallback(t)')
                => /\ active' = active
                   /\ pc'[t] \in {"ts_reset", "ts_finally", "fs_reset", "idle"}
       /\ (Returns("update") /\ call'.was_active /\ call'.arg
              /\ call'.count > call'.threshold)
            => call'.invoked = 1]_vars

\* after a threshold save whose callback raised (the count was not reset),
\* the next update() is inside the callback
C23_Witness ==
    /\ pc[UI] = "ts_callback" /\ call.op = "update" /\ active
    /\ call.count = call.threshold + 1 /\ expired = 0

\* C38: while the IdleSaver stays active, every update() call is eventually
\* followed by an invocation of the save callback, given that a started
\* timer fires unless it is cancelled, whatever update() and force_save()
\* calls come later.
C38_EveryUpdateIsSaved ==
    (pc[UI] = "update_locked" /\ active) ~> (\E t \in Threads : InCallback(t))

\* C36: the character threshold changes only in a save that update()
\* triggers because the character count reached the threshold (the with
\* block after the callback, run by the UI thread); no step of a timer's
\* thread, which runs the idle timeout's save, changes it.
C36_IdleSaveKeepsThreshold ==
    [][char_threshold' # char_threshold => pc[UI] = "ts_reset_locked" /\ lock = UI]_vars

\* ----------------------------------------- claims on the connection manager
Getters == {"get_client", "get_database", "get_collection"}

\* caller t returns from a call of one of the operations in names in this
\* step
MReturns(t, names) ==
    /\ mret'[t].op \in names
    /\ mpc'[t] = "idle"
    /\ mpc[t] # "idle" \/ mret'[t] # mret[t]

OpenClients == {i \in ClientIds : clients[i] = "open"}

C25_OneOpenClient == Cardinality(OpenClients) <= 1

\* C26: shutdown() is idempotent and final: once it has run, the client and
\* database handles are None (so is_connected() is false), every
\* get_client/get_database/get_collection returns None, and a further
\* shutdown() changes nothing.
C26_ShutdownFinal ==
    [][is_shutting_down =>
         /\ is_shutting_down'
         /\ client' = NoClient /\ db' = NoClient
         /\ \A t \in Callers :
               /\ MReturns(t, Getters) => mret'[t].handle = NoClient
               /\ MReturns(t, {"is_connected"}) => ~mret'[t].ok
               /\ MReturns(t, {"shutdown"})
                    => ~mret'[t].raised /\ UNCHANGED <<client, db, clients, heartbeat>>]_vars

\* C27: when shutdown() is called by another thread while the reconnect loop
\* sleeps between attempts, the loop makes no further connection attempt.
C27_ReconnectCancellable ==
    [][(\E u \in Callers : mpc[u] = "shutdown" /\ mret[u].during_sleep)
         => \A t \in Callers : mret'[t].tries = mret[t].tries]_vars

\* C28: each reconnect-with-backoff makes at most MAX_RECONNECT_ATTEMPTS
\* connection attempts, closes and drops the stale client before each
\* attempt, and on exhausting the attempts returns false with client and
\* database None.
C28_ReconnectBounded ==
    [][\A t \in Callers :
         /\ (mpc[t] = "rc_attempt" /\ mpc'[t] # "rc_attempt")
              => /\ mret'[t].tries <= MAX_RECONNECT_ATTEMPTS
                 /\ client # NoClient => clients'[client] = "closed" /\ client' # client
         /\ (mpc[t] = "rc_check" /\ mpc'[t] = "idle" /\ ~is_shutting_down)
              => /\ mret'[t].tries = MAX_RECONNECT_ATTEMPTS
                 /\ ~mret'[t].ok /\ mret'[t].handle = NoClient
                 /\ client' = NoClient /\ db' = NoClient]_vars

\* a reconnect closed the stale client, made three attempts and gave up
C28_Witness ==
    \E t \in Callers :
        /\ mpc[t] = "idle" /\ mret[t].op \in Getters
        /\ mret[t].tries = MAX_RECONNECT_ATTEMPTS /\ ~mret[t].ok
        /\ clients[1] = "closed" /\ client = NoClient /\ ~is_shutting_down

\* C29: a get_client/get_database/get_collection call made after a failed
\* heartbeat ping (with no ping or reconnect since) reconnects or pings anew
\* or returns None; it does not hand out the handle unchecked.
C29_ProbeFailureLeadsToReconnect ==
    [][\A t \in Callers :
         (mpc[t] = "get_locked" /\ mret[t].after_failed_probe /\ probe_failed
             /\ mpc'[t] = "idle")
            => mret'[t].handle = NoClient \/ ~probe_failed']_vars

\* C39: in every state in which is_connected() is true (as it is after
\* an init() that returned true) and the server is reachable, a
\* get_client(), get_database() or get_collection() that runs next returns
\* a handle, and the handle is that of the open client.
C39_ConsistentAnswers ==
    [][\A t \in Callers :
         (mpc[t] = "get_locked" /\ mpc'[t] = "idle"
             /\ client # NoClient /\ db # NoClient /\ remote_up)
            => /\ mret'[t].handle # NoClient
               /\ mret'[t].handle = client'
               /\ clients'[client'] = "open"]_vars

\* ------------------------------------------------- claims on the listing
ListedIds == {mementos[i].memento_id : i \in 1..Len(mementos)}

RemoteIds == {content_docs[i].memento_id : i \in 1..Len(content_docs)}

\* C30: the list that list_mementos returns holds the local mementos and
\* the mementos that only the remote collection holds (when it can be
\* reached), every memento id at most once, whatever number of content
\* documents the collection holds for it, in descending order of
\* last_modified.
C30_ListMementos ==
    listed # "no" =>
        /\ ListedIds = local_ids(local_dirs)
                          \cup (IF listed = "remote" THEN RemoteIds ELSE {})
        /\ \A i, j \in 1..Len(mementos) :
               mementos[i].memento_id = mementos[j].memento_id => i = j
        /\ \A i, j \in 1..Len(mementos) :
               i < j => mementos[i].last_modified >= mementos[j].last_modified

\* C31: load_memento(id) returns None exactly when the memento has neither
\* a local directory nor a content document in the remote collection (the
\* collection being reachable); so every id that list_mementos reports
\* can be loaded.
C31_LoadMemento ==
    (lret.op = "load_memento" /\ remote_up) =>
        (lret.found <=> (lret.id \in local_ids(local_dirs) \/ lret.id \in RemoteIds))

\* C32: create_new_memento returns 0 when no memento directory exists and
\* otherwise the largest existing id + 1; the id is none of those that
\* list_mementos reports before the call; the memento can be loaded
\* afterwards; and of two calls in a row the second returns the larger id.
C32_CreateNewMemento ==
    [][(lret'.op = "create_new_memento" /\ now' # now) =>
          LET existing == local_ids(local_dirs)
              reported == Listing(local_dirs, content_docs, remote_up)
          IN /\ lret'.id = IF existing = {} THEN 0
                           ELSE (CHOOSE x \in existing : \A y \in existing : y <= x) + 1
             /\ \A k \in 1..Len(reported) : reported[k].memento_id # lret'.id
             /\ load_memento(local_dirs', lret'.id)
             /\ lret.op = "create_new_memento" => lret'.id > lret.id]_vars

\* ------------------------------------------ claims on calculate_buffer_size
\* floor(1024 / max(n / 1024, 1)): the q with q <= 1024 * 1024 / max(n, 1024) < q + 1
FloorQuotient(n) ==
    LET d == Max(n, 1024)
    IN  CHOOSE q \in 0..1024 : q * d <= 1024 * 1024 /\ 1024 * 1024 < (q + 1) * d

Clamp(x, lo, hi) == IF x < lo THEN lo ELSE IF x > hi THEN hi ELSE x

\* C33: calculate_buffer_size(n) is floor(1024 / max(n / 1024, 1)) clamped
\* to [3, 50]; it lies in [3, 50] and no smaller size has a smaller
\* result.
C33_BufferSizeFormula ==
    buffer_size # -1 =>
        /\ buffer_size = Clamp(FloorQuotient(text_size_bytes), 3, 50)
        /\ 3 <= buffer_size /\ buffer_size <= 50
        /\ \A m \in Sizes :
               m <= text_size_bytes => calculate_buffer_size(m) >= buffer_size

\* a size between the clamps: 1048576 / 149797 = 6.99...
C33_Witness == text_size_bytes = 149797 /\ buffer_size = 6

C35_DamagedControlDefaults ==
    (cret.op = "FileManager" /\ control_file.kind # "object")
        => /\ cret.raised = "no"
           /\ manager2.current_index = 0
           /\ manager2.max_buffers = DEFAULT_MAX_BUFFERS
====
